---- MODULE Spec2Model ----
(***************************************************************************)
(* RavenShell tree-walking evaluator (src/evaluator/evaluator.go, the      *)
(* revision with functions, switch and control-flow signals, lines         *)
(* 781-2269).                                                              *)
(*                                                                         *)
(* The evaluator is single-threaded and every Eval call runs to            *)
(* completion, so each Go function is one recursive operator of the same   *)
(* name taking the evaluator (the record e) and returning the evaluator    *)
(* after the call with the Go results:  [e, val, err].  One Eval call of   *)
(* the driver (REPL line, script) is one step of the state machine.        *)
(*                                                                         *)
(* Go strings are sequences of one-character strings.  A Value is a        *)
(* tagged record.  An error is a record [k |-> ...]; NoErr is Go's nil.    *)
(* The field e.log is a history of the current Eval call: it records what  *)
(* was executed, written and returned, and is never read by the evaluator. *)
(***************************************************************************)
EXTENDS Integers, Sequences, FiniteSets, TLC

\* ------------------------------------------------------------------------
\* Bounds of the model
\* ------------------------------------------------------------------------
\* number of Eval calls the driver makes on one evaluator
MaxEvals == 2

\* the longest path handed to resolvePath on its own
MaxPathLen == 3

\* the longest token sequence handed to the parser
MaxTokens == 5

\* the longest input handed to the lexer
MaxInput == 3

\* the most words a line handed to the lexer and the parser has
MaxWords == 3

\* ------------------------------------------------------------------------
\* Strings
\* ------------------------------------------------------------------------
Digits == <<"0", "1", "2", "3", "4", "5", "6", "7", "8", "9">>

NL == "\n"

RECURSIVE Concat(_)
\* strings.Join(ss, "") of a sequence of strings
Concat(ss) ==
    IF ss = << >> THEN << >> ELSE Head(ss) \o Concat(Tail(ss))

RECURSIVE Join(_, _)
\* strings.Join(ss, sep)
Join(ss, sep) ==
    IF ss = << >> THEN << >>
    ELSE IF Len(ss) = 1 THEN ss[1]
    ELSE ss[1] \o sep \o Join(Tail(ss), sep)

RECURSIVE FormatNat(_)
FormatNat(n) ==
    IF n < 10 THEN <<Digits[n + 1]>>
    ELSE FormatNat(n \div 10) \o <<Digits[(n % 10) + 1]>>

\* strconv.FormatInt(v, 10)
FormatInt(v) ==
    IF v < 0 THEN <<"-">> \o FormatNat(0 - v) ELSE FormatNat(v)

IsDigit(c) == \E d \in 1..10 : Digits[d] = c

DigitVal(c) == (CHOOSE d \in 1..10 : Digits[d] = c) - 1

RECURSIVE ParseNat(_, _)
ParseNat(s, acc) ==
    IF s = << >> THEN acc ELSE ParseNat(Tail(s), acc * 10 + DigitVal(Head(s)))

\* strconv.ParseInt(s, 10, 64): an optional sign followed by one or more
\* decimal digits; anything else is a syntax error.  (Values stay far below
\* the int64 range in this model, so the range error is not reachable.)
ParseInt(s) ==
    LET body == IF s # << >> /\ Head(s) \in {"+", "-"} THEN Tail(s) ELSE s
        neg  == s # << >> /\ Head(s) = "-"
    IN  IF body = << >> \/ \E i \in 1..Len(body) : ~IsDigit(body[i])
        THEN [ok |-> FALSE, n |-> 0]
        ELSE [ok |-> TRUE, n |-> IF neg THEN 0 - ParseNat(body, 0) ELSE ParseNat(body, 0)]

\* ------------------------------------------------------------------------
\* Values (type Value interface{}) and errors
\* ------------------------------------------------------------------------
IntV(n) == [t |-> "int", i |-> n]
StrV(s) == [t |-> "str", s |-> s]
BoolV(b) == [t |-> "bool", b |-> b]
ArrV(a) == [t |-> "arr", a |-> a]
NilV == [t |-> "nil"]
\* map[string]Value: the entries in the order their keys were first stored.
\* The order in which Go ranges over a map is not defined; here a map is
\* ranged over in the order of its entries or in the opposite one, as rev,
\* drawn when the map is made, says
DictV(pairs, rev) == [t |-> "dict", pairs |-> pairs, rev |-> rev]

NoErr          == [k |-> "nil"]
errBreak       == [k |-> "break"]
errContinue    == [k |-> "continue"]
returnValue(v) == [k |-> "return", Value |-> v]
Errorf(m)      == [k |-> "error", msg |-> m]

\* Go maps: functions over a finite set of keys
EmptyMap == [x \in {} |-> NilV]

MapPut(m, k, v) == [x \in (DOMAIN m) \cup {k} |-> IF x = k THEN v ELSE m[x]]

Has(m, k) == k \in DOMAIN m

\* the one element of a singleton set
The(S) == CHOOSE x \in S : TRUE

\* the result triple of an evaluator call
R(e, val, err) == [e |-> e, val |-> val, err |-> err]

Log(e, rec) == [e EXCEPT !.log = Append(@, rec)]

\* for key, val := range m
RangeOver(pairs, rev) ==
    IF rev THEN [i \in 1..Len(pairs) |-> pairs[Len(pairs) + 1 - i]] ELSE pairs

\* dict[keyStr] = value
DictPut(pairs, k, v) ==
    IF \E i \in 1..Len(pairs) : pairs[i].k = k
    THEN [i \in 1..Len(pairs) |-> IF pairs[i].k = k THEN [k |-> k, v |-> v] ELSE pairs[i]]
    ELSE Append(pairs, [k |-> k, v |-> v])

\* fmt's %q of a key without characters to escape
Quote(s) == <<"\"">> \o s \o <<"\"">>

RECURSIVE valueToString(_)
valueToString(val) ==
    CASE val.t = "str"  -> val.s
      [] val.t = "int"  -> FormatInt(val.i)
      [] val.t = "bool" -> IF val.b THEN <<"t", "r", "u", "e">>
                                    ELSE <<"f", "a", "l", "s", "e">>
      [] val.t = "arr"  ->
            <<"[">> \o Join([i \in 1..Len(val.a) |-> valueToString(val.a[i])],
                            <<",", " ">>) \o <<"]">>
      [] val.t = "dict" ->
            LET ps == RangeOver(val.pairs, val.rev) IN
            <<"{">> \o Join([i \in 1..Len(ps) |->
                                Quote(ps[i].k) \o <<":", " ">> \o valueToString(ps[i].v)],
                            <<",", " ">>) \o <<"}">>
      [] val.t = "nil"  -> << >>

valueToInt64(val) ==
    CASE val.t = "int" -> [ok |-> TRUE, n |-> val.i]
      [] val.t = "str" -> ParseInt(val.s)
      [] OTHER         -> [ok |-> FALSE, n |-> 0]

valueToBool(val) ==
    CASE val.t = "bool" -> val.b
      [] val.t = "int"  -> val.i # 0
      [] val.t = "str"  -> val.s # << >>
      [] val.t = "arr"  -> Len(val.a) > 0
      [] OTHER          -> val.t # "nil"

valuesEqual(a, b) ==
    LET aNum == valueToInt64(a)
        bNum == valueToInt64(b)
    IN  IF aNum.ok /\ bNum.ok THEN aNum.n = bNum.n
        ELSE valueToString(a) = valueToString(b)

\* ------------------------------------------------------------------------
\* Paths (path/filepath on a Unix build) and the process environment
\* ------------------------------------------------------------------------
RECURSIVE SplitSlash(_, _)
\* the components of a path between "/" separators (cur is the one being read)
SplitSlash(s, cur) ==
    IF s = << >> THEN <<cur>>
    ELSE IF Head(s) = "/" THEN <<cur>> \o SplitSlash(Tail(s), << >>)
    ELSE SplitSlash(Tail(s), Append(cur, Head(s)))

RECURSIVE CleanParts(_, _, _)
\* filepath.Clean's scan: drop empty and "." components, let ".." remove the
\* component before it (at the root it is dropped, in a relative path kept)
CleanParts(parts, acc, rooted) ==
    IF parts = << >> THEN acc
    ELSE LET c == Head(parts) IN
         IF c = << >> \/ c = <<".">> THEN CleanParts(Tail(parts), acc, rooted)
         ELSE IF c = <<".", ".">> THEN
              IF acc # << >> /\ acc[Len(acc)] # <<".", ".">>
              THEN CleanParts(Tail(parts), SubSeq(acc, 1, Len(acc) - 1), rooted)
              ELSE IF rooted THEN CleanParts(Tail(parts), acc, rooted)
              ELSE CleanParts(Tail(parts), Append(acc, c), rooted)
         ELSE CleanParts(Tail(parts), Append(acc, c), rooted)

\* filepath.IsAbs
IsAbs(path) == path # << >> /\ Head(path) = "/"

\* filepath.Clean
Clean(path) ==
    IF path = << >> THEN <<".">>
    ELSE LET rooted == IsAbs(path)
             parts  == CleanParts(SplitSlash(path, << >>), << >>, rooted)
             body   == Join(parts, <<"/">>)
         IN  IF rooted THEN <<"/">> \o body
             ELSE IF body = << >> THEN <<".">> ELSE body

\* filepath.Join(a, b)
PathJoin(a, b) ==
    IF a = << >> /\ b = << >> THEN << >>
    ELSE IF a = << >> THEN Clean(b)
    ELSE IF b = << >> THEN Clean(a)
    ELSE Clean(a \o <<"/">> \o b)

\* filepath.Dir of a cleaned absolute path
ParentDir(path) ==
    LET parts == CleanParts(SplitSlash(path, << >>), << >>, TRUE)
    IN  IF parts = << >> THEN <<"/">>
        ELSE <<"/">> \o Join(SubSeq(parts, 1, Len(parts) - 1), <<"/">>)

\* $HOME of the process when it is set, and $USER
HomeDir == <<"/", "h">>

UserName == <<"u">>

\* the directory the process is started in (os.Getwd in New)
StartDir == <<"/", "w">>

\* ------------------------------------------------------------------------
\* Streams: os.Stdout / os.Stdin, bytes.Buffer, *os.File
\* ------------------------------------------------------------------------
OsStdout == [kind |-> "stdout"]

OsStdin == [kind |-> "stdin"]

BufStream(k) == [kind |-> "buf", id |-> k]

FileStream(h) == [kind |-> "file", id |-> h]

\* a byte written by the kernel to fill a hole below a write offset
NUL == "NUL"

\* the content of a file after writing data at byte offset off
WriteAt(content, off, data) ==
    LET padded == IF Len(content) < off
                  THEN content \o [i \in 1..(off - Len(content)) |-> NUL]
                  ELSE content
    IN  SubSeq(padded, 1, off) \o data
          \o SubSeq(padded, off + Len(data) + 1, Len(padded))

\* fmt.Fprint(w, data): the write error, if any, is discarded by the callers
Fprint(e, w, data) ==
    LET e1 == Log(e, [ev |-> "write", to |-> w, data |-> data]) IN
    CASE w.kind = "stdout" -> [e1 EXCEPT !.console = @ \o data]
      [] w.kind = "buf"    -> [e1 EXCEPT !.bufs[w.id] = @ \o data]
      [] w.kind = "file"   ->
            LET h == e.handles[w.id] IN
            IF h.closed \/ h.mode = "r" THEN e1
            ELSE IF h.mode = "a"
            THEN [e1 EXCEPT !.files[h.path] = @ \o data]
            ELSE [e1 EXCEPT !.files[h.path] = WriteAt(@, h.off, data),
                            !.handles[w.id].off = @ + Len(data)]
      [] OTHER -> e1

\* io.ReadAll(r): everything not yet read from r
ReadAll(e, r) ==
    CASE r.kind = "buf" ->
            R([e EXCEPT !.bufs[r.id] = << >>], e.bufs[r.id], NoErr)
      [] r.kind = "file" ->
            LET h == e.handles[r.id] IN
            IF h.closed \/ h.mode # "r" THEN R(e, << >>, Errorf("read: bad file"))
            ELSE IF h.path \in e.dirs THEN R(e, << >>, Errorf("read: is a directory"))
            ELSE LET c == e.files[h.path] IN
                 R([e EXCEPT !.handles[r.id].off = IF @ > Len(c) THEN @ ELSE Len(c)],
                   IF h.off >= Len(c) THEN << >> ELSE SubSeq(c, h.off + 1, Len(c)),
                   NoErr)
      [] OTHER -> R(e, << >>, NoErr)

NewHandle(path, mode) == [path |-> path, mode |-> mode, off |-> 0, closed |-> FALSE]

\* os.Create(path): O_RDWR|O_CREATE|O_TRUNC
osCreate(e, path) ==
    IF path \in e.dirs THEN R(e, 0, Errorf("open: is a directory"))
    ELSE IF ParentDir(path) \notin e.dirs THEN R(e, 0, Errorf("open: no such file or directory"))
    ELSE R(Log([e EXCEPT !.files = MapPut(@, path, << >>),
                         !.handles = Append(@, NewHandle(path, "w"))],
               [ev |-> "open", path |-> path, mode |-> "w"]),
           Len(e.handles) + 1, NoErr)

\* os.OpenFile(path, O_APPEND|O_CREATE|O_WRONLY, 0644)
osOpenAppend(e, path) ==
    IF path \in e.dirs THEN R(e, 0, Errorf("open: is a directory"))
    ELSE IF ParentDir(path) \notin e.dirs THEN R(e, 0, Errorf("open: no such file or directory"))
    ELSE R(Log([e EXCEPT !.files = IF Has(@, path) THEN @ ELSE MapPut(@, path, << >>),
                         !.handles = Append(@, NewHandle(path, "a"))],
               [ev |-> "open", path |-> path, mode |-> "a"]),
           Len(e.handles) + 1, NoErr)

\* os.Open(path): read-only; a directory can be opened too
osOpen(e, path) ==
    IF Has(e.files, path) \/ path \in e.dirs
    THEN R([e EXCEPT !.handles = Append(@, NewHandle(path, "r"))],
           Len(e.handles) + 1, NoErr)
    ELSE R(e, 0, Errorf("open: no such file or directory"))

\* file.Close()
osClose(e, h) == [e EXCEPT !.handles[h].closed = TRUE]

\* os.ReadFile(path)
osReadFile(e, path) ==
    IF path \in e.dirs THEN R(e, << >>, Errorf("read: is a directory"))
    ELSE IF Has(e.files, path) THEN R(e, e.files[path], NoErr)
    ELSE R(e, << >>, Errorf("open: no such file or directory"))

\* os.UserHomeDir(): $HOME, an error when it is not set
osUserHomeDir(e) ==
    IF e.home = << >> THEN [dir |-> << >>, ok |-> FALSE]
    ELSE [dir |-> e.home, ok |-> TRUE]

\* ------------------------------------------------------------------------
\* AST nodes (src/ast/ast.go); NilNode is a nil pointer / nil interface
\* ------------------------------------------------------------------------
NilNode == [type |-> "nil"]

Identifier(v)        == [type |-> "Identifier", Value |-> v]
PathExpression(v)    == [type |-> "PathExpression", Value |-> v]
IntegerLiteral(n)    == [type |-> "IntegerLiteral", Value |-> n]
StringLiteral(v)     == [type |-> "StringLiteral", Value |-> v]
BooleanLiteral(b)    == [type |-> "BooleanLiteral", Value |-> b]
VariableReference(n) == [type |-> "VariableReference", Name |-> n]
Command(t, args)     == [type |-> "Command", Type |-> t, Name |-> t, Arguments |-> args]
PipeExpression(l, r) == [type |-> "PipeExpression", Left |-> l, Right |-> r]
RedirectionExpression(t, c, target) ==
    [type |-> "RedirectionExpression", Type |-> t, Command |-> c, Target |-> target]
InfixExpression(l, op, r) ==
    [type |-> "InfixExpression", Left |-> l, Operator |-> op, Right |-> r]
PrefixExpression(op, r) == [type |-> "PrefixExpression", Operator |-> op, Right |-> r]
CallExpression(f, args) == [type |-> "CallExpression", Function |-> f, Arguments |-> args]
ArrayLiteral(elems, hint) == [type |-> "ArrayLiteral", Elements |-> elems, TypeHint |-> hint]
IndexExpression(l, i)   == [type |-> "IndexExpression", Left |-> l, Index |-> i]
\* Pairs: the key and value expressions in the order the parser stored them
DictLiteral(pairs)      == [type |-> "DictLiteral", Pairs |-> pairs]

ExpressionStatement(x)    == [type |-> "ExpressionStatement", Expression |-> x]
AssignmentStatement(n, v) == [type |-> "AssignmentStatement", Name |-> n, Value |-> v]
BlockStatement(stmts)     == [type |-> "BlockStatement", Statements |-> stmts]
ForStatement(v, it, body) ==
    [type |-> "ForStatement", Variable |-> v, Iterable |-> it, Body |-> body]
IfStatement(c, cons, alt) ==
    [type |-> "IfStatement", Condition |-> c, Consequence |-> cons, Alternative |-> alt]
BreakStatement    == [type |-> "BreakStatement"]
ContinueStatement == [type |-> "ContinueStatement"]
FunctionStatement(n, params, body) ==
    [type |-> "FunctionStatement", Name |-> n, Parameters |-> params, Body |-> body]
ReturnStatement(v) == [type |-> "ReturnStatement", Value |-> v]
CaseClause(vals, body) == [Values |-> vals, Body |-> body]
SwitchStatement(v, cases, def) ==
    [type |-> "SwitchStatement", Value |-> v, Cases |-> cases, Default |-> def]

\* type Function struct
Function(params, body, env) == [Parameters |-> params, Body |-> body, Env |-> env]

\* ------------------------------------------------------------------------
\* Helper functions of the evaluator
\* ------------------------------------------------------------------------
\* resolvePath as it would be if it took the home directory from the HOME of
\* the evaluator's own environment overlay when that is set
resolvePathHomeFromEnv(e, path) ==
    LET home == IF Has(e.env, <<"H", "O", "M", "E">>)
                THEN [dir |-> e.env[<<"H", "O", "M", "E">>], ok |-> TRUE]
                ELSE osUserHomeDir(e)
    IN
    IF Len(path) = 0 THEN e.cwd
    ELSE IF path = <<"~">> THEN
         IF ~home.ok THEN e.cwd ELSE home.dir
    ELSE IF Len(path) >= 2 /\ SubSeq(path, 1, 2) = <<"~", "/">> THEN
         IF ~home.ok THEN Clean(PathJoin(e.cwd, path))
         ELSE Clean(PathJoin(home.dir, SubSeq(path, 3, Len(path))))
    ELSE IF IsAbs(path) THEN Clean(path)
    ELSE Clean(PathJoin(e.cwd, path))

resolvePath(e, path) ==
    IF Len(path) = 0 THEN e.cwd
    ELSE IF path = <<"~">> THEN
         IF ~osUserHomeDir(e).ok THEN e.cwd ELSE osUserHomeDir(e).dir
    ELSE IF Len(path) >= 2 /\ SubSeq(path, 1, 2) = <<"~", "/">> THEN
         IF ~osUserHomeDir(e).ok THEN Clean(PathJoin(e.cwd, path))
         ELSE Clean(PathJoin(osUserHomeDir(e).dir, SubSeq(path, 3, Len(path))))
    ELSE IF IsAbs(path) THEN Clean(path)
    ELSE Clean(PathJoin(e.cwd, path))

\* os.Getenv: the process environment holds USER and, when set, HOME
osGetenv(e, name) ==
    IF name = <<"U", "S", "E", "R">> THEN UserName
    ELSE IF name = <<"H", "O", "M", "E">> THEN e.home
    ELSE << >>

expandVariable(e, name) ==
    IF Has(e.env, name) THEN e.env[name] ELSE osGetenv(e, name)

\* Go's integer division truncates toward zero
GoDiv(a, b) ==
    LET q == (IF a < 0 THEN 0 - a ELSE a) \div (IF b < 0 THEN 0 - b ELSE b)
    IN  IF (a < 0) = (b < 0) THEN q ELSE 0 - q

GoMod(a, b) == a - b * GoDiv(a, b)

\* ------------------------------------------------------------------------
\* Command implementations
\* ------------------------------------------------------------------------
execPrint(e, args) ==
    IF e.stdin # OsStdin
    THEN LET rd == ReadAll(e, e.stdin) IN
         IF rd.err # NoErr THEN R(rd.e, << >>, rd.err)
         ELSE R(Fprint(rd.e, rd.e.stdout, rd.val), rd.val, NoErr)
    ELSE LET result == Join(args, <<" ">>) \o <<NL>> IN
         R(Fprint(e, e.stdout, result), result, NoErr)

execOutput(e, args) == execPrint(e, args)

RECURSIVE execShowLoop(_, _, _)
execShowLoop(e, args, output) ==
    IF args = << >> THEN R(Fprint(e, e.stdout, output), output, NoErr)
    ELSE LET rd == osReadFile(e, resolvePath(e, Head(args))) IN
         IF rd.err # NoErr THEN R(e, << >>, Errorf("show: read failed"))
         ELSE execShowLoop(e, Tail(args), output \o rd.val)

execShow(e, args) ==
    IF Len(args) = 0 THEN R(e, << >>, Errorf("show: missing file argument"))
    ELSE execShowLoop(e, args, << >>)

execChangeDir(e, args) ==
    IF Len(args) = 0
    THEN IF ~osUserHomeDir(e).ok THEN R(e, << >>, Errorf("cd: no home"))
         ELSE R([e EXCEPT !.cwd = osUserHomeDir(e).dir], << >>, NoErr)
    ELSE LET target == resolvePath(e, args[1]) IN
         IF target \notin e.dirs /\ ~Has(e.files, target)
         THEN R(e, << >>, Errorf("cd: no such file or directory"))
         ELSE IF target \notin e.dirs THEN R(e, << >>, Errorf("cd: not a directory"))
         ELSE R([e EXCEPT !.cwd = target], << >>, NoErr)

execCurrentDir(e) == R(Fprint(e, e.stdout, e.cwd \o <<NL>>), e.cwd, NoErr)

execWhoami(e) == R(Fprint(e, e.stdout, UserName \o <<NL>>), UserName, NoErr)

execHome(e) ==
    IF ~osUserHomeDir(e).ok THEN R(e, << >>, Errorf("home: no home"))
    ELSE R(Fprint(e, e.stdout, osUserHomeDir(e).dir \o <<NL>>), osUserHomeDir(e).dir, NoErr)

execClear(e) == R(Fprint(e, e.stdout, <<"ESC[2J", "ESC[H">>), << >>, NoErr)

RECURSIVE execMakeFileLoop(_, _)
execMakeFileLoop(e, args) ==
    IF args = << >> THEN R(e, << >>, NoErr)
    ELSE LET c == osCreate(e, resolvePath(e, Head(args))) IN
         IF c.err # NoErr THEN R(e, << >>, Errorf("mkfile: create failed"))
         ELSE execMakeFileLoop(osClose(c.e, c.val), Tail(args))

execMakeFile(e, args) ==
    IF Len(args) = 0 THEN R(e, << >>, Errorf("mkfile: missing operand"))
    ELSE execMakeFileLoop(e, args)

\* ------------------------------------------------------------------------
\* The evaluator
\* ------------------------------------------------------------------------
RECURSIVE EvalFrom(_, _, _)
RECURSIVE evalStatement(_, _)
RECURSIVE evalExpressionValue(_, _)
RECURSIVE evalExpression(_, _)
RECURSIVE evalCommandArgs(_, _, _)
RECURSIVE evalCommand(_, _)
RECURSIVE evalPipe(_, _)
RECURSIVE evalRedirection(_, _)
RECURSIVE evalAssignment(_, _)
RECURSIVE evalForItems(_, _, _, _, _)
RECURSIVE evalForStatement(_, _)
RECURSIVE evalSwitchCases(_, _, _, _, _, _)
RECURSIVE evalSwitchStatement(_, _)
RECURSIVE evalIfStatement(_, _)
RECURSIVE evalBlockStatements(_, _, _)
RECURSIVE evalBlockStatement(_, _)
RECURSIVE evalPrefixExpression(_, _)
RECURSIVE evalInfixExpression(_, _)
RECURSIVE evalFunctionStatement(_, _)
RECURSIVE evalReturnStatement(_, _)
RECURSIVE evalCallExpression(_, _)
RECURSIVE bindArguments(_, _, _, _, _)
RECURSIVE callUserFunction(_, _, _)
RECURSIVE evalExpressionInEnv(_, _, _)
RECURSIVE builtinRange(_, _)
RECURSIVE builtinAppend(_, _)
RECURSIVE builtinLen(_, _)
RECURSIVE evalArrayElements(_, _, _)
RECURSIVE evalArrayLiteral(_, _)
RECURSIVE evalIndexExpression(_, _)
RECURSIVE builtinSlice(_, _)
RECURSIVE evalDictPairs(_, _, _)
RECURSIVE evalDictLiteral(_, _)

\* In the operators below "x \in {call}" names the result of a call, and
\* The({body : x \in {call}}) is what the rest of the Go function makes of it.

\* Eval as it would be if a failing statement undid the bindings it made
EvalFromUndoing(e, program, i) ==
    IF i > Len(program.Statements) THEN R(e, NilV, NoErr)
    ELSE The({
        LET e0 == IF r.err # NoErr THEN [r.e EXCEPT !.vars = EmptyMap] ELSE r.e
            e1 == Log(e0, [ev |-> "top_done", idx |-> i, err |-> r.err,
                           vars |-> e0.vars, functions |-> e0.functions,
                           cwd |-> e0.cwd])
        IN  IF r.err # NoErr THEN R(e1, NilV, r.err)
            ELSE EvalFrom(e1, program, i + 1)
        : r \in {evalStatement(Log(e, [ev |-> "top", idx |-> i]),
                               program.Statements[i])} })

\* Eval as it would be if break, continue and return were dropped at top level
EvalFromDroppingSignals(e, program, i) ==
    IF i > Len(program.Statements) THEN R(e, NilV, NoErr)
    ELSE The({
        LET e1 == Log(r.e, [ev |-> "top_done", idx |-> i, err |-> r.err,
                            vars |-> r.e.vars, functions |-> r.e.functions,
                            cwd |-> r.e.cwd])
        IN  IF r.err.k = "error" \/ r.err.k = "panic" THEN R(e1, NilV, r.err)
            ELSE EvalFrom(e1, program, i + 1)
        : r \in {evalStatement(Log(e, [ev |-> "top", idx |-> i]),
                               program.Statements[i])} })

\* the loop of Eval over program.Statements, from statement i on
EvalFrom(e, program, i) ==
    IF i > Len(program.Statements) THEN R(e, NilV, NoErr)
    ELSE The({
        LET e1 == Log(r.e, [ev |-> "top_done", idx |-> i, err |-> r.err,
                            vars |-> r.e.vars, functions |-> r.e.functions,
                            cwd |-> r.e.cwd])
        IN  IF r.err # NoErr THEN R(e1, NilV, r.err)
            ELSE EvalFrom(e1, program, i + 1)
        : r \in {evalStatement(Log(e, [ev |-> "top", idx |-> i]),
                               program.Statements[i])} })

Eval(e, program) == EvalFrom(e, program, 1)

evalStatement(e, stmt) ==
    LET e0 == Log(e, [ev |-> "stmt", type |-> stmt.type]) IN
    CASE stmt.type = "ExpressionStatement" ->
            The({R(r.e, NilV, r.err) : r \in {evalExpressionValue(e0, stmt.Expression)}})
      [] stmt.type = "AssignmentStatement" -> evalAssignment(e0, stmt)
      [] stmt.type = "ForStatement"        -> evalForStatement(e0, stmt)
      [] stmt.type = "IfStatement"         -> evalIfStatement(e0, stmt)
      [] stmt.type = "BreakStatement"      -> R(e0, NilV, errBreak)
      [] stmt.type = "ContinueStatement"   -> R(e0, NilV, errContinue)
      [] stmt.type = "FunctionStatement"   ->
            \* history: the bindings in force at this definition
            evalFunctionStatement(
                [e0 EXCEPT !.defVars = MapPut(@, stmt.Name, e0.vars)], stmt)
      [] stmt.type = "ReturnStatement"     -> evalReturnStatement(e0, stmt)
      [] stmt.type = "SwitchStatement"     -> evalSwitchStatement(e0, stmt)
      [] OTHER -> R(e0, NilV, NoErr)

\* the dispatch as it would be if an identifier without a binding were an error
evalExpressionValueStrict(e, expr) ==
    LET e0 == Log(e, [ev |-> "expr", type |-> expr.type]) IN
    CASE expr.type = "Command" ->
            The({R(r.e, StrV(r.val), r.err) : r \in {evalCommand(e0, expr)}})
      [] expr.type \in {"PipeExpression", "RedirectionExpression"} ->
            \* history: the streams before and after a pipe or redirection
            The({R(Log(r.e, [ev |-> "io_ret", type |-> expr.type,
                             redir |-> IF expr.type = "RedirectionExpression"
                                       THEN expr.Type ELSE "",
                             from |-> Len(e0.log),
                             val |-> r.val, err |-> r.err,
                             stdoutBefore |-> e.stdout, stdinBefore |-> e.stdin,
                             stdoutAfter |-> r.e.stdout, stdinAfter |-> r.e.stdin]),
                   StrV(r.val), r.err)
                 : r \in {IF expr.type = "PipeExpression" THEN evalPipe(e0, expr)
                          ELSE evalRedirection(e0, expr)}})
      [] expr.type = "Identifier" ->
            \* history: an identifier has been looked up
            IF Has(e0.vars, expr.Value)
            THEN R(Log(e0, [ev |-> "ident", name |-> expr.Value, bound |-> TRUE,
                            val |-> e0.vars[expr.Value], err |-> NoErr]),
                   e0.vars[expr.Value], NoErr)
            ELSE R(Log(e0, [ev |-> "ident", name |-> expr.Value, bound |-> FALSE,
                            val |-> NilV, err |-> Errorf("undefined variable")]),
                   NilV, Errorf("undefined variable"))
      [] expr.type = "PathExpression" -> R(e0, StrV(resolvePath(e0, expr.Value)), NoErr)
      [] expr.type = "StringLiteral"  -> R(e0, StrV(expr.Value), NoErr)
      [] expr.type = "IntegerLiteral" -> R(e0, IntV(expr.Value), NoErr)
      [] expr.type = "VariableReference" ->
            R(e0, StrV(expandVariable(e0, expr.Name)), NoErr)
      [] expr.type = "InfixExpression"  -> evalInfixExpression(e0, expr)
      [] expr.type = "CallExpression"   -> evalCallExpression(e0, expr)
      [] expr.type = "ArrayLiteral"     -> evalArrayLiteral(e0, expr)
      [] expr.type = "IndexExpression"  -> evalIndexExpression(e0, expr)
      [] expr.type = "DictLiteral"      -> evalDictLiteral(e0, expr)
      [] expr.type = "BooleanLiteral"   -> R(e0, BoolV(expr.Value), NoErr)
      [] expr.type = "PrefixExpression" -> evalPrefixExpression(e0, expr)
      [] OTHER -> R(e0, NilV, Errorf("unknown expression type"))

evalExpressionValue(e, expr) ==
    LET e0 == Log(e, [ev |-> "expr", type |-> expr.type]) IN
    CASE expr.type = "Command" ->
            The({R(r.e, StrV(r.val), r.err) : r \in {evalCommand(e0, expr)}})
      [] expr.type \in {"PipeExpression", "RedirectionExpression"} ->
            \* history: the streams before and after a pipe or redirection
            The({R(Log(r.e, [ev |-> "io_ret", type |-> expr.type,
                             redir |-> IF expr.type = "RedirectionExpression"
                                       THEN expr.Type ELSE "",
                             from |-> Len(e0.log),
                             val |-> r.val, err |-> r.err,
                             stdoutBefore |-> e.stdout, stdinBefore |-> e.stdin,
                             stdoutAfter |-> r.e.stdout, stdinAfter |-> r.e.stdin]),
                   StrV(r.val), r.err)
                 : r \in {IF expr.type = "PipeExpression" THEN evalPipe(e0, expr)
                          ELSE evalRedirection(e0, expr)}})
      [] expr.type = "Identifier" ->
            \* history: an identifier has been looked up
            IF Has(e0.vars, expr.Value)
            THEN R(Log(e0, [ev |-> "ident", name |-> expr.Value, bound |-> TRUE,
                            val |-> e0.vars[expr.Value], err |-> NoErr]),
                   e0.vars[expr.Value], NoErr)
            ELSE R(Log(e0, [ev |-> "ident", name |-> expr.Value, bound |-> FALSE,
                            val |-> StrV(expr.Value), err |-> NoErr]),
                   StrV(expr.Value), NoErr)
      [] expr.type = "PathExpression" -> R(e0, StrV(resolvePath(e0, expr.Value)), NoErr)
      [] expr.type = "StringLiteral"  -> R(e0, StrV(expr.Value), NoErr)
      [] expr.type = "IntegerLiteral" -> R(e0, IntV(expr.Value), NoErr)
      [] expr.type = "VariableReference" ->
            R(e0, StrV(expandVariable(e0, expr.Name)), NoErr)
      [] expr.type = "InfixExpression"  -> evalInfixExpression(e0, expr)
      [] expr.type = "CallExpression"   -> evalCallExpression(e0, expr)
      [] expr.type = "ArrayLiteral"     -> evalArrayLiteral(e0, expr)
      [] expr.type = "IndexExpression"  -> evalIndexExpression(e0, expr)
      [] expr.type = "DictLiteral"      -> evalDictLiteral(e0, expr)
      [] expr.type = "BooleanLiteral"   -> R(e0, BoolV(expr.Value), NoErr)
      [] expr.type = "PrefixExpression" -> evalPrefixExpression(e0, expr)
      [] OTHER -> R(e0, NilV, Errorf("unknown expression type"))

evalExpression(e, expr) ==
    The({IF r.err # NoErr THEN R(r.e, << >>, r.err)
         ELSE R(r.e, valueToString(r.val), NoErr)
         : r \in {evalExpressionValue(e, expr)}})

\* the argument loop of evalCommand
evalCommandArgs(e, exprs, args) ==
    IF exprs = << >> THEN R(e, args, NoErr)
    ELSE The({IF r.err # NoErr THEN R(r.e, << >>, r.err)
              ELSE evalCommandArgs(r.e, Tail(exprs), Append(args, r.val))
              : r \in {evalExpression(e, Head(exprs))}})

evalCommand(e, cmd) ==
    The({
        IF a.err # NoErr THEN R(a.e, << >>, a.err)
        ELSE LET e1   == Log(a.e, [ev |-> "exec", Type |-> cmd.Type, args |-> a.val])
                 args == a.val
             IN  CASE cmd.Type = "cd"     -> execChangeDir(e1, args)
                   [] cmd.Type = "cwd"    -> execCurrentDir(e1)
                   [] cmd.Type = "mkfile" -> execMakeFile(e1, args)
                   [] cmd.Type = "whoami" -> execWhoami(e1)
                   [] cmd.Type = "print"  -> execPrint(e1, args)
                   [] cmd.Type = "output" -> execOutput(e1, args)
                   [] cmd.Type = "show"   -> execShow(e1, args)
                   [] cmd.Type = "clear"  -> execClear(e1)
                   [] cmd.Type = "~"      -> execHome(e1)
                   [] OTHER -> R(e1, << >>, Errorf("unknown command"))
        : a \in {evalCommandArgs(e, cmd.Arguments, << >>)} })

\* evalPipe as it would be if a failing left side returned before os.Stdout
\* was put back
evalPipeKeepingBuffer(e, pipe) ==
    LET k         == Len(e.bufs) + 1
        oldStdout == e.stdout
        e1 == Log([e EXCEPT !.bufs = Append(@, << >>), !.stdout = BufStream(k)],
                  [ev |-> "pipe_left", buf |-> k, outer |-> e.stdout,
                   stdout |-> BufStream(k)])
    IN  The({
        IF l.err # NoErr
        THEN R(Log(l.e, [ev |-> "pipe_mid", buf |-> k, err |-> l.err]), << >>, l.err)
        ELSE LET e2 == Log([l.e EXCEPT !.stdout = oldStdout],
                           [ev |-> "pipe_mid", buf |-> k, err |-> l.err])
                 oldStdin == e2.stdin
                 e3 == Log([e2 EXCEPT !.stdin = BufStream(k)],
                           [ev |-> "pipe_right", buf |-> k, stdin |-> BufStream(k),
                            data |-> e2.bufs[k]])
             IN  The({R(Log([r.e EXCEPT !.stdin = oldStdin],
                            [ev |-> "pipe_done", buf |-> k, rval |-> r.val,
                             rerr |-> r.err]),
                        r.val, r.err)
                      : r \in {evalExpression(e3, pipe.Right)}})
        : l \in {evalExpression(e1, pipe.Left)} })

\* evalPipe as it would be if the left side kept writing to the enclosing
\* output
evalPipeNotCapturing(e, pipe) ==
    LET k         == Len(e.bufs) + 1
        oldStdout == e.stdout
        e1 == Log([e EXCEPT !.bufs = Append(@, << >>)],
                  [ev |-> "pipe_left", buf |-> k, outer |-> e.stdout,
                   stdout |-> e.stdout])
    IN  The({
        LET e2 == Log([l.e EXCEPT !.stdout = oldStdout],
                      [ev |-> "pipe_mid", buf |-> k, err |-> l.err])
        IN  IF l.err # NoErr THEN R(e2, << >>, l.err)
            ELSE LET oldStdin == e2.stdin
                     e3 == Log([e2 EXCEPT !.stdin = BufStream(k)],
                               [ev |-> "pipe_right", buf |-> k, stdin |-> BufStream(k),
                                data |-> e2.bufs[k]])
                 IN  The({R(Log([r.e EXCEPT !.stdin = oldStdin],
                                [ev |-> "pipe_done", buf |-> k, rval |-> r.val,
                                 rerr |-> r.err]),
                            r.val, r.err)
                          : r \in {evalExpression(e3, pipe.Right)}})
        : l \in {evalExpression(e1, pipe.Left)} })

evalPipe(e, pipe) ==
    LET k         == Len(e.bufs) + 1            \* var leftOutput bytes.Buffer
        oldStdout == e.stdout
        e1 == Log([e EXCEPT !.bufs = Append(@, << >>), !.stdout = BufStream(k)],
                  [ev |-> "pipe_left", buf |-> k, outer |-> e.stdout,
                   stdout |-> BufStream(k)])
    IN  The({
        LET e2 == Log([l.e EXCEPT !.stdout = oldStdout],
                      [ev |-> "pipe_mid", buf |-> k, err |-> l.err])
        IN  IF l.err # NoErr THEN R(e2, << >>, l.err)
            ELSE LET oldStdin == e2.stdin
                     e3 == Log([e2 EXCEPT !.stdin = BufStream(k)],
                               [ev |-> "pipe_right", buf |-> k, stdin |-> BufStream(k),
                                data |-> e2.bufs[k]])
                 IN  The({R(Log([r.e EXCEPT !.stdin = oldStdin],
                                [ev |-> "pipe_done", buf |-> k, rval |-> r.val,
                                 rerr |-> r.err]),
                            r.val, r.err)
                          : r \in {evalExpression(e3, pipe.Right)}})
        : l \in {evalExpression(e1, pipe.Left)} })

\* the redirection as it would be if the file were closed only after a
\* command that succeeded
evalRedirectionLeakingFile(e, redir) ==
    The({
        IF t.err # NoErr THEN R(t.e, << >>, t.err)
        ELSE
        LET target     == t.val
            targetPath == resolvePath(t.e, target)
        IN
        \* history: a file has been opened for the output of a command, and the
        \* redirection is over
        CASE redir.Type = ">" ->
               LET f == osCreate(t.e, targetPath) IN
               IF f.err # NoErr THEN R(f.e, << >>, Errorf("cannot create file"))
               ELSE LET oldStdout == f.e.stdout IN
                    The({LET e1 == IF r.err # NoErr THEN [r.e EXCEPT !.stdout = oldStdout]
                                  ELSE osClose([r.e EXCEPT !.stdout = oldStdout], f.val)
                         IN  R(Log(e1, [ev |-> "redir_done", h |-> f.val,
                                        err |-> r.err, content |-> e1.files[targetPath],
                                        closed |-> e1.handles[f.val].closed]),
                               r.val, r.err)
                         : r \in {evalExpression(
                                    Log([f.e EXCEPT !.stdout = FileStream(f.val)],
                                        [ev |-> "redir_open", h |-> f.val,
                                         Type |-> redir.Type, path |-> targetPath,
                                         before |-> IF Has(t.e.files, targetPath)
                                                    THEN t.e.files[targetPath] ELSE << >>,
                                         outer |-> oldStdout]),
                                    redir.Command)}})
          [] redir.Type = ">>" ->
               LET f == osOpenAppend(t.e, targetPath) IN
               IF f.err # NoErr THEN R(f.e, << >>, Errorf("cannot open file"))
               ELSE LET oldStdout == f.e.stdout IN
                    The({LET e1 == IF r.err # NoErr THEN [r.e EXCEPT !.stdout = oldStdout]
                                  ELSE osClose([r.e EXCEPT !.stdout = oldStdout], f.val)
                         IN  R(Log(e1, [ev |-> "redir_done", h |-> f.val,
                                        err |-> r.err, content |-> e1.files[targetPath],
                                        closed |-> e1.handles[f.val].closed]),
                               r.val, r.err)
                         : r \in {evalExpression(
                                    Log([f.e EXCEPT !.stdout = FileStream(f.val)],
                                        [ev |-> "redir_open", h |-> f.val,
                                         Type |-> redir.Type, path |-> targetPath,
                                         before |-> IF Has(t.e.files, targetPath)
                                                    THEN t.e.files[targetPath] ELSE << >>,
                                         outer |-> oldStdout]),
                                    redir.Command)}})
          [] redir.Type = "<" ->
               LET f == osOpen(t.e, targetPath) IN
               IF f.err # NoErr THEN R(f.e, << >>, Errorf("cannot open file"))
               ELSE LET oldStdin == f.e.stdin IN
                    The({R(osClose([r.e EXCEPT !.stdin = oldStdin], f.val),
                           r.val, r.err)
                         : r \in {evalExpression(
                                    [f.e EXCEPT !.stdin = FileStream(f.val)],
                                    redir.Command)}})
          [] redir.Type = "<<" -> R(t.e, << >>, Errorf("heredoc not yet implemented"))
          [] OTHER -> R(t.e, << >>, NoErr)
        : t \in {evalExpression(e, redir.Target)} })

\* the redirection as it would be if a heredoc ran its command before it
\* reported that it is not implemented
evalRedirectionHeredocRuns(e, redir) ==
    The({
        IF t.err # NoErr THEN R(t.e, << >>, t.err)
        ELSE
        LET target     == t.val
            targetPath == resolvePath(t.e, target)
        IN
        \* history: a file has been opened for the output of a command, and the
        \* redirection is over
        CASE redir.Type = ">" ->
               LET f == osCreate(t.e, targetPath) IN
               IF f.err # NoErr THEN R(f.e, << >>, Errorf("cannot create file"))
               ELSE LET oldStdout == f.e.stdout IN
                    The({LET e1 == osClose([r.e EXCEPT !.stdout = oldStdout], f.val)
                         IN  R(Log(e1, [ev |-> "redir_done", h |-> f.val,
                                        err |-> r.err, content |-> e1.files[targetPath],
                                        closed |-> e1.handles[f.val].closed]),
                               r.val, r.err)
                         : r \in {evalExpression(
                                    Log([f.e EXCEPT !.stdout = FileStream(f.val)],
                                        [ev |-> "redir_open", h |-> f.val,
                                         Type |-> redir.Type, path |-> targetPath,
                                         before |-> IF Has(t.e.files, targetPath)
                                                    THEN t.e.files[targetPath] ELSE << >>,
                                         outer |-> oldStdout]),
                                    redir.Command)}})
          [] redir.Type = ">>" ->
               LET f == osOpenAppend(t.e, targetPath) IN
               IF f.err # NoErr THEN R(f.e, << >>, Errorf("cannot open file"))
               ELSE LET oldStdout == f.e.stdout IN
                    The({LET e1 == osClose([r.e EXCEPT !.stdout = oldStdout], f.val)
                         IN  R(Log(e1, [ev |-> "redir_done", h |-> f.val,
                                        err |-> r.err, content |-> e1.files[targetPath],
                                        closed |-> e1.handles[f.val].closed]),
                               r.val, r.err)
                         : r \in {evalExpression(
                                    Log([f.e EXCEPT !.stdout = FileStream(f.val)],
                                        [ev |-> "redir_open", h |-> f.val,
                                         Type |-> redir.Type, path |-> targetPath,
                                         before |-> IF Has(t.e.files, targetPath)
                                                    THEN t.e.files[targetPath] ELSE << >>,
                                         outer |-> oldStdout]),
                                    redir.Command)}})
          [] redir.Type = "<" ->
               LET f == osOpen(t.e, targetPath) IN
               IF f.err # NoErr THEN R(f.e, << >>, Errorf("cannot open file"))
               ELSE LET oldStdin == f.e.stdin IN
                    The({R(osClose([r.e EXCEPT !.stdin = oldStdin], f.val),
                           r.val, r.err)
                         : r \in {evalExpression(
                                    [f.e EXCEPT !.stdin = FileStream(f.val)],
                                    redir.Command)}})
          [] redir.Type = "<<" ->
               The({R(r.e, << >>, Errorf("heredoc not yet implemented"))
                    : r \in {evalExpression(t.e, redir.Command)}})
          [] OTHER -> R(t.e, << >>, NoErr)
        : t \in {evalExpression(e, redir.Target)} })

evalRedirection(e, redir) ==
    The({
        IF t.err # NoErr THEN R(t.e, << >>, t.err)
        ELSE
        LET target     == t.val
            targetPath == resolvePath(t.e, target)
        IN
        \* history: a file has been opened for the output of a command, and the
        \* redirection is over
        CASE redir.Type = ">" ->
               LET f == osCreate(t.e, targetPath) IN
               IF f.err # NoErr THEN R(f.e, << >>, Errorf("cannot create file"))
               ELSE LET oldStdout == f.e.stdout IN
                    The({LET e1 == osClose([r.e EXCEPT !.stdout = oldStdout], f.val)
                         IN  R(Log(e1, [ev |-> "redir_done", h |-> f.val,
                                        err |-> r.err, content |-> e1.files[targetPath],
                                        closed |-> e1.handles[f.val].closed]),
                               r.val, r.err)
                         : r \in {evalExpression(
                                    Log([f.e EXCEPT !.stdout = FileStream(f.val)],
                                        [ev |-> "redir_open", h |-> f.val,
                                         Type |-> redir.Type, path |-> targetPath,
                                         before |-> IF Has(t.e.files, targetPath)
                                                    THEN t.e.files[targetPath] ELSE << >>,
                                         outer |-> oldStdout]),
                                    redir.Command)}})
          [] redir.Type = ">>" ->
               LET f == osOpenAppend(t.e, targetPath) IN
               IF f.err # NoErr THEN R(f.e, << >>, Errorf("cannot open file"))
               ELSE LET oldStdout == f.e.stdout IN
                    The({LET e1 == osClose([r.e EXCEPT !.stdout = oldStdout], f.val)
                         IN  R(Log(e1, [ev |-> "redir_done", h |-> f.val,
                                        err |-> r.err, content |-> e1.files[targetPath],
                                        closed |-> e1.handles[f.val].closed]),
                               r.val, r.err)
                         : r \in {evalExpression(
                                    Log([f.e EXCEPT !.stdout = FileStream(f.val)],
                                        [ev |-> "redir_open", h |-> f.val,
                                         Type |-> redir.Type, path |-> targetPath,
                                         before |-> IF Has(t.e.files, targetPath)
                                                    THEN t.e.files[targetPath] ELSE << >>,
                                         outer |-> oldStdout]),
                                    redir.Command)}})
          [] redir.Type = "<" ->
               LET f == osOpen(t.e, targetPath) IN
               IF f.err # NoErr THEN R(f.e, << >>, Errorf("cannot open file"))
               ELSE LET oldStdin == f.e.stdin IN
                    The({R(osClose([r.e EXCEPT !.stdin = oldStdin], f.val),
                           r.val, r.err)
                         : r \in {evalExpression(
                                    [f.e EXCEPT !.stdin = FileStream(f.val)],
                                    redir.Command)}})
          [] redir.Type = "<<" -> R(t.e, << >>, Errorf("heredoc not yet implemented"))
          [] OTHER -> R(t.e, << >>, NoErr)
        : t \in {evalExpression(e, redir.Target)} })

evalAssignment(e, stmt) ==
    The({IF r.err # NoErr THEN R(r.e, NilV, r.err)
         ELSE R([r.e EXCEPT !.vars = MapPut(@, stmt.Name, r.val)], NilV, NoErr)
         : r \in {evalExpressionValue(e, stmt.Value)}})

\* the loop as it would be if break only skipped the rest of the iteration
evalForItemsBreakSkips(e, stmt, items, i, act) ==
    IF i > Len(items)
    THEN R(Log(e, [ev |-> "for_done", act |-> act, err |-> NoErr]), NilV, NoErr)
    ELSE The({
        LET e2 == Log(b.e, [ev |-> "for_body", act |-> act, idx |-> i,
                            n |-> Len(items), err |-> b.err])
        IN  IF b.err = errBreak \/ b.err = errContinue
            THEN evalForItems(e2, stmt, items, i + 1, act)
            ELSE IF b.err # NoErr
            THEN R(Log(e2, [ev |-> "for_done", act |-> act, err |-> b.err]), NilV, b.err)
            ELSE evalForItems(e2, stmt, items, i + 1, act)
        : b \in {evalBlockStatement(
                   Log([e EXCEPT !.vars = MapPut(@, stmt.Variable, items[i])],
                       [ev |-> "for_iter", act |-> act, idx |-> i, item |-> items[i]]),
                   stmt.Body)} })

\* the loop as it would be if each iteration evaluated the iterable again
evalForItemsLive(e, stmt, items, i, act) ==
    The({
        IF it.err # NoErr \/ it.val.t # "arr" THEN R(it.e, NilV, it.err)
        ELSE IF i > Len(it.val.a)
        THEN R(Log(it.e, [ev |-> "for_done", act |-> act, err |-> NoErr]), NilV, NoErr)
        ELSE The({
            LET e2 == Log(b.e, [ev |-> "for_body", act |-> act, idx |-> i,
                                n |-> Len(it.val.a), err |-> b.err])
            IN  IF b.err = errBreak
                THEN R(Log(e2, [ev |-> "for_done", act |-> act, err |-> NoErr]), NilV, NoErr)
                ELSE IF b.err = errContinue THEN evalForItems(e2, stmt, items, i + 1, act)
                ELSE IF b.err # NoErr
                THEN R(Log(e2, [ev |-> "for_done", act |-> act, err |-> b.err]), NilV, b.err)
                ELSE evalForItems(e2, stmt, items, i + 1, act)
            : b \in {evalBlockStatement(
                       Log([it.e EXCEPT !.vars = MapPut(@, stmt.Variable, it.val.a[i])],
                           [ev |-> "for_iter", act |-> act, idx |-> i,
                            item |-> it.val.a[i]]),
                       stmt.Body)} })
        : it \in {evalExpressionValue(e, stmt.Iterable)} })

\* the loop of evalForStatement over items, from item i on; act numbers this
\* execution of the loop in the history
evalForItems(e, stmt, items, i, act) ==
    IF i > Len(items)
    THEN R(Log(e, [ev |-> "for_done", act |-> act, err |-> NoErr]), NilV, NoErr)
    ELSE The({
        LET e2 == Log(b.e, [ev |-> "for_body", act |-> act, idx |-> i,
                            n |-> Len(items), err |-> b.err])
        IN  IF b.err = errBreak
            THEN R(Log(e2, [ev |-> "for_done", act |-> act, err |-> NoErr]), NilV, NoErr)
            ELSE IF b.err = errContinue THEN evalForItems(e2, stmt, items, i + 1, act)
            ELSE IF b.err # NoErr
            THEN R(Log(e2, [ev |-> "for_done", act |-> act, err |-> b.err]), NilV, b.err)
            ELSE evalForItems(e2, stmt, items, i + 1, act)
        : b \in {evalBlockStatement(
                   Log([e EXCEPT !.vars = MapPut(@, stmt.Variable, items[i])],
                       [ev |-> "for_iter", act |-> act, idx |-> i, item |-> items[i]]),
                   stmt.Body)} })

evalForStatement(e, stmt) ==
    The({IF it.err # NoErr THEN R(it.e, NilV, it.err)
         ELSE IF it.val.t # "arr" THEN R(it.e, NilV, Errorf("cannot iterate"))
         ELSE \* history: a loop begins over the items the iterable gave
              evalForItems(Log([it.e EXCEPT !.nact = @ + 1],
                               [ev |-> "for_start", act |-> it.e.nact + 1,
                                items |-> it.val.a]),
                           stmt, it.val.a, 1, it.e.nact + 1)
         : it \in {evalExpressionValue(e, stmt.Iterable)}})

\* the loops as they would be if a matched body fell through to the values
\* after it
evalSwitchCasesFallThrough(e, stmt, switchVal, ci, vi, act) ==
    IF ci > Len(stmt.Cases)
    THEN IF stmt.Default # NilNode
         THEN evalBlockStatement(
                  Log(e, [ev |-> "switch_body", act |-> act, which |-> 0,
                          hasDefault |-> TRUE]),
                  stmt.Default)
         ELSE R(Log(e, [ev |-> "switch_none", act |-> act]), NilV, NoErr)
    ELSE IF vi > Len(stmt.Cases[ci].Values)
    THEN evalSwitchCases(e, stmt, switchVal, ci + 1, 1, act)
    ELSE The({IF v.err # NoErr THEN R(v.e, NilV, v.err)
              ELSE
              \* history: one case value has been compared with the subject
              LET e1 == Log(v.e, [ev |-> "case", act |-> act, ci |-> ci, vi |-> vi,
                                  subject |-> switchVal, val |-> v.val,
                                  eq |-> valuesEqual(switchVal, v.val),
                                  shape |-> [c \in 1..Len(stmt.Cases) |->
                                                Len(stmt.Cases[c].Values)]])
              IN
              IF valuesEqual(switchVal, v.val)
              THEN The({IF b.err # NoErr THEN b
                        ELSE evalSwitchCases(b.e, stmt, switchVal, ci, vi + 1, act)
                        : b \in {evalBlockStatement(
                                   Log(e1, [ev |-> "switch_body", act |-> act, which |-> ci,
                                            hasDefault |-> stmt.Default # NilNode]),
                                   stmt.Cases[ci].Body)}})
              ELSE evalSwitchCases(e1, stmt, switchVal, ci, vi + 1, act)
              : v \in {evalExpressionValue(e, stmt.Cases[ci].Values[vi])}})

\* the two nested loops of evalSwitchStatement, at value vi of clause ci; act
\* numbers this execution of the switch in the history
evalSwitchCases(e, stmt, switchVal, ci, vi, act) ==
    IF ci > Len(stmt.Cases)
    THEN IF stmt.Default # NilNode
         THEN evalBlockStatement(
                  Log(e, [ev |-> "switch_body", act |-> act, which |-> 0,
                          hasDefault |-> TRUE]),
                  stmt.Default)
         ELSE R(Log(e, [ev |-> "switch_none", act |-> act]), NilV, NoErr)
    ELSE IF vi > Len(stmt.Cases[ci].Values)
    THEN evalSwitchCases(e, stmt, switchVal, ci + 1, 1, act)
    ELSE The({IF v.err # NoErr THEN R(v.e, NilV, v.err)
              ELSE
              \* history: one case value has been compared with the subject
              LET e1 == Log(v.e, [ev |-> "case", act |-> act, ci |-> ci, vi |-> vi,
                                  subject |-> switchVal, val |-> v.val,
                                  eq |-> valuesEqual(switchVal, v.val),
                                  shape |-> [c \in 1..Len(stmt.Cases) |->
                                                Len(stmt.Cases[c].Values)]])
              IN
              IF valuesEqual(switchVal, v.val)
              THEN evalBlockStatement(
                       Log(e1, [ev |-> "switch_body", act |-> act, which |-> ci,
                                hasDefault |-> stmt.Default # NilNode]),
                       stmt.Cases[ci].Body)
              ELSE evalSwitchCases(e1, stmt, switchVal, ci, vi + 1, act)
              : v \in {evalExpressionValue(e, stmt.Cases[ci].Values[vi])}})

evalSwitchStatement(e, stmt) ==
    The({IF s.err # NoErr THEN R(s.e, NilV, s.err)
         ELSE evalSwitchCases([s.e EXCEPT !.nact = @ + 1], stmt, s.val, 1, 1,
                              s.e.nact + 1)
         : s \in {evalExpressionValue(e, stmt.Value)}})

evalIfStatement(e, stmt) ==
    The({IF c.err # NoErr THEN R(c.e, NilV, c.err)
         ELSE IF valueToBool(c.val) \/ stmt.Alternative # NilNode
         THEN evalBlockStatement(c.e, IF valueToBool(c.val) THEN stmt.Consequence
                                      ELSE stmt.Alternative)
         ELSE R(c.e, NilV, NoErr)
         : c \in {evalExpressionValue(e, stmt.Condition)}})

\* the loop of evalBlockStatement, from statement i on
evalBlockStatements(e, block, i) ==
    IF i > Len(block.Statements) THEN R(e, NilV, NoErr)
    ELSE The({IF r.err # NoErr THEN R(r.e, NilV, r.err)
              ELSE evalBlockStatements(r.e, block, i + 1)
              : r \in {evalStatement(e, block.Statements[i])}})

evalBlockStatement(e, block) == evalBlockStatements(e, block, 1)

evalPrefixExpression(e, node) ==
    The({IF r.err # NoErr THEN R(r.e, NilV, r.err)
         ELSE IF node.Operator = "!" THEN R(r.e, BoolV(~valueToBool(r.val)), NoErr)
         ELSE R(r.e, NilV, Errorf("unknown prefix operator"))
         : r \in {evalExpressionValue(e, node.Right)}})

\* the operators as they would be if && and || evaluated both sides first
evalInfixExpressionEager(e, node) ==
    LET op == node.Operator IN
    The({
        \* history: a logical operator is done; from is the number of events
        \* there were when its left side had been evaluated
        LET logic(e2, val, err) ==
                Log(e2, [ev |-> "logic", op |-> op, left |-> l.val,
                         rtype |-> node.Right.type, from |-> Len(l.e.log),
                         val |-> val, err |-> err])
        IN
        IF l.err # NoErr THEN R(l.e, NilV, l.err)
        ELSE The({
            IF r.err # NoErr
            THEN R(IF op \in {"&&", "||"} THEN logic(r.e, NilV, r.err) ELSE r.e,
                   NilV, r.err)
            ELSE IF op = "&&"
            THEN R(logic(r.e, BoolV(valueToBool(l.val) /\ valueToBool(r.val)), NoErr),
                   BoolV(valueToBool(l.val) /\ valueToBool(r.val)), NoErr)
            ELSE IF op = "||"
            THEN R(logic(r.e, BoolV(valueToBool(l.val) \/ valueToBool(r.val)), NoErr),
                   BoolV(valueToBool(l.val) \/ valueToBool(r.val)), NoErr)
            ELSE
            LET left     == l.val
                right    == r.val
                leftNum  == valueToInt64(left)
                rightNum == valueToInt64(right)
                leftStr  == valueToString(left)
                rightStr == valueToString(right)
                \* history: + has been applied to two values
                plus(val, err) ==
                    Log(r.e, [ev |-> "plus", left |-> left, right |-> right,
                              val |-> val, err |-> err])
            IN
            IF op = "+" /\ (left.t = "str" \/ right.t = "str")
            THEN R(plus(StrV(leftStr \o rightStr), NoErr), StrV(leftStr \o rightStr), NoErr)
            ELSE IF leftNum.ok /\ rightNum.ok
                    /\ op \in {"+", "-", "*", "/", "%", "==", "!=", "<", ">", "<=", ">="}
            THEN CASE op = "+"  -> R(plus(IntV(leftNum.n + rightNum.n), NoErr),
                                     IntV(leftNum.n + rightNum.n), NoErr)
                   [] op = "-"  -> R(r.e, IntV(leftNum.n - rightNum.n), NoErr)
                   [] op = "*"  -> R(r.e, IntV(leftNum.n * rightNum.n), NoErr)
                   [] op = "/"  -> IF rightNum.n = 0
                                   THEN R(r.e, NilV, Errorf("division by zero"))
                                   ELSE R(r.e, IntV(GoDiv(leftNum.n, rightNum.n)), NoErr)
                   [] op = "%"  -> IF rightNum.n = 0
                                   THEN R(r.e, NilV, Errorf("modulo by zero"))
                                   ELSE R(r.e, IntV(GoMod(leftNum.n, rightNum.n)), NoErr)
                   [] op = "==" -> R(r.e, BoolV(leftNum.n = rightNum.n), NoErr)
                   [] op = "!=" -> R(r.e, BoolV(leftNum.n # rightNum.n), NoErr)
                   [] op = "<"  -> R(r.e, BoolV(leftNum.n < rightNum.n), NoErr)
                   [] op = ">"  -> R(r.e, BoolV(leftNum.n > rightNum.n), NoErr)
                   [] op = "<=" -> R(r.e, BoolV(leftNum.n <= rightNum.n), NoErr)
                   [] op = ">=" -> R(r.e, BoolV(leftNum.n >= rightNum.n), NoErr)
            ELSE CASE op = "==" -> R(r.e, BoolV(leftStr = rightStr), NoErr)
                   [] op = "!=" -> R(r.e, BoolV(leftStr # rightStr), NoErr)
                   [] op = "+"  -> R(plus(StrV(leftStr \o rightStr), NoErr),
                                     StrV(leftStr \o rightStr), NoErr)
                   [] OTHER     -> R(r.e, NilV, Errorf("unknown operator"))
            : r \in {evalExpressionValue(l.e, node.Right)} })
        : l \in {evalExpressionValue(e, node.Left)} })

\* the operators as they would be if + gave an error for operands that are
\* neither strings nor both integers
evalInfixExpressionPlusStrict(e, node) ==
    LET op == node.Operator IN
    The({
        \* history: a logical operator is done; from is the number of events
        \* there were when its left side had been evaluated
        LET logic(e2, val, err) ==
                Log(e2, [ev |-> "logic", op |-> op, left |-> l.val,
                         rtype |-> node.Right.type, from |-> Len(l.e.log),
                         val |-> val, err |-> err])
        IN
        IF l.err # NoErr THEN R(l.e, NilV, l.err)
        ELSE IF op = "&&" /\ ~valueToBool(l.val)
        THEN R(logic(l.e, BoolV(FALSE), NoErr), BoolV(FALSE), NoErr)
        ELSE IF op = "||" /\ valueToBool(l.val)
        THEN R(logic(l.e, BoolV(TRUE), NoErr), BoolV(TRUE), NoErr)
        ELSE The({
            IF r.err # NoErr
            THEN R(IF op \in {"&&", "||"} THEN logic(r.e, NilV, r.err) ELSE r.e,
                   NilV, r.err)
            ELSE IF op \in {"&&", "||"}
            THEN R(logic(r.e, BoolV(valueToBool(r.val)), NoErr),
                   BoolV(valueToBool(r.val)), NoErr)
            ELSE
            LET left     == l.val
                right    == r.val
                leftNum  == valueToInt64(left)
                rightNum == valueToInt64(right)
                leftStr  == valueToString(left)
                rightStr == valueToString(right)
                \* history: + has been applied to two values
                plus(val, err) ==
                    Log(r.e, [ev |-> "plus", left |-> left, right |-> right,
                              val |-> val, err |-> err])
            IN
            IF op = "+" /\ (left.t = "str" \/ right.t = "str")
            THEN R(plus(StrV(leftStr \o rightStr), NoErr), StrV(leftStr \o rightStr), NoErr)
            ELSE IF leftNum.ok /\ rightNum.ok
                    /\ op \in {"+", "-", "*", "/", "%", "==", "!=", "<", ">", "<=", ">="}
            THEN CASE op = "+"  -> R(plus(IntV(leftNum.n + rightNum.n), NoErr),
                                     IntV(leftNum.n + rightNum.n), NoErr)
                   [] op = "-"  -> R(r.e, IntV(leftNum.n - rightNum.n), NoErr)
                   [] op = "*"  -> R(r.e, IntV(leftNum.n * rightNum.n), NoErr)
                   [] op = "/"  -> IF rightNum.n = 0
                                   THEN R(r.e, NilV, Errorf("division by zero"))
                                   ELSE R(r.e, IntV(GoDiv(leftNum.n, rightNum.n)), NoErr)
                   [] op = "%"  -> IF rightNum.n = 0
                                   THEN R(r.e, NilV, Errorf("modulo by zero"))
                                   ELSE R(r.e, IntV(GoMod(leftNum.n, rightNum.n)), NoErr)
                   [] op = "==" -> R(r.e, BoolV(leftNum.n = rightNum.n), NoErr)
                   [] op = "!=" -> R(r.e, BoolV(leftNum.n # rightNum.n), NoErr)
                   [] op = "<"  -> R(r.e, BoolV(leftNum.n < rightNum.n), NoErr)
                   [] op = ">"  -> R(r.e, BoolV(leftNum.n > rightNum.n), NoErr)
                   [] op = "<=" -> R(r.e, BoolV(leftNum.n <= rightNum.n), NoErr)
                   [] op = ">=" -> R(r.e, BoolV(leftNum.n >= rightNum.n), NoErr)
            ELSE CASE op = "==" -> R(r.e, BoolV(leftStr = rightStr), NoErr)
                   [] op = "!=" -> R(r.e, BoolV(leftStr # rightStr), NoErr)
                   [] op = "+"  -> R(plus(NilV, Errorf("unknown operator")),
                                     NilV, Errorf("unknown operator"))
                   [] OTHER     -> R(r.e, NilV, Errorf("unknown operator"))
            : r \in {evalExpressionValue(l.e, node.Right)} })
        : l \in {evalExpressionValue(e, node.Left)} })

\* (the regex operator =~ needs the host regex engine and is not among the
\* operators of the programs evaluated here)
evalInfixExpression(e, node) ==
    LET op == node.Operator IN
    The({
        \* history: a logical operator is done; from is the number of events
        \* there were when its left side had been evaluated
        LET logic(e2, val, err) ==
                Log(e2, [ev |-> "logic", op |-> op, left |-> l.val,
                         rtype |-> node.Right.type, from |-> Len(l.e.log),
                         val |-> val, err |-> err])
        IN
        IF l.err # NoErr THEN R(l.e, NilV, l.err)
        ELSE IF op = "&&" /\ ~valueToBool(l.val)
        THEN R(logic(l.e, BoolV(FALSE), NoErr), BoolV(FALSE), NoErr)
        ELSE IF op = "||" /\ valueToBool(l.val)
        THEN R(logic(l.e, BoolV(TRUE), NoErr), BoolV(TRUE), NoErr)
        ELSE The({
            IF r.err # NoErr
            THEN R(IF op \in {"&&", "||"} THEN logic(r.e, NilV, r.err) ELSE r.e,
                   NilV, r.err)
            ELSE IF op \in {"&&", "||"}
            THEN R(logic(r.e, BoolV(valueToBool(r.val)), NoErr),
                   BoolV(valueToBool(r.val)), NoErr)
            ELSE
            LET left     == l.val
                right    == r.val
                leftNum  == valueToInt64(left)
                rightNum == valueToInt64(right)
                leftStr  == valueToString(left)
                rightStr == valueToString(right)
                \* history: + has been applied to two values
                plus(val, err) ==
                    Log(r.e, [ev |-> "plus", left |-> left, right |-> right,
                              val |-> val, err |-> err])
            IN
            IF op = "+" /\ (left.t = "str" \/ right.t = "str")
            THEN R(plus(StrV(leftStr \o rightStr), NoErr), StrV(leftStr \o rightStr), NoErr)
            ELSE IF leftNum.ok /\ rightNum.ok
                    /\ op \in {"+", "-", "*", "/", "%", "==", "!=", "<", ">", "<=", ">="}
            THEN CASE op = "+"  -> R(plus(IntV(leftNum.n + rightNum.n), NoErr),
                                     IntV(leftNum.n + rightNum.n), NoErr)
                   [] op = "-"  -> R(r.e, IntV(leftNum.n - rightNum.n), NoErr)
                   [] op = "*"  -> R(r.e, IntV(leftNum.n * rightNum.n), NoErr)
                   [] op = "/"  -> IF rightNum.n = 0
                                   THEN R(r.e, NilV, Errorf("division by zero"))
                                   ELSE R(r.e, IntV(GoDiv(leftNum.n, rightNum.n)), NoErr)
                   [] op = "%"  -> IF rightNum.n = 0
                                   THEN R(r.e, NilV, Errorf("modulo by zero"))
                                   ELSE R(r.e, IntV(GoMod(leftNum.n, rightNum.n)), NoErr)
                   [] op = "==" -> R(r.e, BoolV(leftNum.n = rightNum.n), NoErr)
                   [] op = "!=" -> R(r.e, BoolV(leftNum.n # rightNum.n), NoErr)
                   [] op = "<"  -> R(r.e, BoolV(leftNum.n < rightNum.n), NoErr)
                   [] op = ">"  -> R(r.e, BoolV(leftNum.n > rightNum.n), NoErr)
                   [] op = "<=" -> R(r.e, BoolV(leftNum.n <= rightNum.n), NoErr)
                   [] op = ">=" -> R(r.e, BoolV(leftNum.n >= rightNum.n), NoErr)
            ELSE CASE op = "==" -> R(r.e, BoolV(leftStr = rightStr), NoErr)
                   [] op = "!=" -> R(r.e, BoolV(leftStr # rightStr), NoErr)
                   [] op = "+"  -> R(plus(StrV(leftStr \o rightStr), NoErr),
                                     StrV(leftStr \o rightStr), NoErr)
                   [] OTHER     -> R(r.e, NilV, Errorf("unknown operator"))
            : r \in {evalExpressionValue(l.e, node.Right)} })
        : l \in {evalExpressionValue(e, node.Left)} })

evalFunctionStatement(e, stmt) ==
    LET fn == Function(stmt.Parameters, stmt.Body, e.vars) IN
    R([e EXCEPT !.functions = MapPut(@, stmt.Name, fn)], NilV, NoErr)

evalReturnStatement(e, stmt) ==
    IF stmt.Value # NilNode
    THEN The({IF r.err # NoErr THEN R(r.e, NilV, r.err)
              ELSE R(Log(r.e, [ev |-> "return", val |-> r.val]), NilV,
                     returnValue(r.val))
              : r \in {evalExpressionValue(e, stmt.Value)}})
    ELSE R(Log(e, [ev |-> "return", val |-> NilV]), NilV, returnValue(NilV))

evalCallExpression(e, node) ==
    IF Has(e.functions, node.Function)
    THEN \* history around the call: act numbers the call, cur is the call
         \* whose body or arguments are being evaluated
         LET fn  == e.functions[node.Function]
             act == e.nact + 1
             e1  == Log([e EXCEPT !.nact = act, !.cur = act],
                        [ev |-> "call", act |-> act, name |-> node.Function,
                         params |-> fn.Parameters, args |-> node.Arguments,
                         snap |-> e.defVars[node.Function],
                         varsBefore |-> e.vars])
         IN  The({R(Log([r.e EXCEPT !.cur = e.cur],
                        [ev |-> "call_ret", act |-> act, val |-> r.val,
                         err |-> r.err, varsAfter |-> r.e.vars]),
                    r.val, r.err)
                  : r \in {callUserFunction(e1, fn, node.Arguments)}})
    ELSE CASE node.Function = <<"r", "a", "n", "g", "e">>      -> builtinRange(e, node.Arguments)
           [] node.Function = <<"a", "p", "p", "e", "n", "d">> -> builtinAppend(e, node.Arguments)
           [] node.Function = <<"l", "e", "n">>                -> builtinLen(e, node.Arguments)
           [] node.Function = <<"p", "u", "s", "h">>           -> builtinAppend(e, node.Arguments)
           [] node.Function = <<"s", "l", "i", "c", "e">>      -> builtinSlice(e, node.Arguments)
           [] OTHER -> R(e, NilV, Errorf("unknown function"))

\* the binding loop as it would be if arguments were evaluated in the
\* bindings of the function being called
bindArgumentsInCallee(e, fn, args, i, savedVars) ==
    IF i > Len(fn.Parameters) THEN [e |-> e, err |-> NoErr, savedVars |-> savedVars]
    ELSE The({
        IF r.err # NoErr THEN [e |-> r.e, err |-> r.err, savedVars |-> savedVars]
        ELSE bindArguments([r.e EXCEPT !.vars = MapPut(@, fn.Parameters[i], r.val)],
                           fn, args, i + 1, savedVars)
        : r \in {evalExpressionValue(e, args[i])} })

\* the parameter loop of callUserFunction, from parameter i on; savedVars is
\* the caller's map, which evalExpressionInEnv installs while it evaluates
bindArguments(e, fn, args, i, savedVars) ==
    IF i > Len(fn.Parameters) THEN [e |-> e, err |-> NoErr, savedVars |-> savedVars]
    ELSE The({
        IF r.err # NoErr THEN [e |-> r.e, err |-> r.err, savedVars |-> r.vars]
        ELSE bindArguments([r.e EXCEPT !.vars = MapPut(@, fn.Parameters[i], r.val)],
                           fn, args, i + 1, r.vars)
        : r \in {evalExpressionInEnv(e, args[i], savedVars)} })

\* the call as it would be if the return signal were not taken by the call
callUserFunctionReturnAsError(e, fn, args) ==
    IF Len(args) # Len(fn.Parameters)
    THEN R(e, NilV, Errorf("wrong number of arguments"))
    ELSE The({
        IF b.err # NoErr THEN R([b.e EXCEPT !.vars = b.savedVars], NilV, b.err)
        ELSE The({
            LET e3 == Log([r.e EXCEPT !.vars = b.savedVars],
                          [ev |-> "body_exit", act |-> r.e.cur, err |-> r.err])
            IN  IF r.err # NoErr THEN R(e3, NilV, r.err)
                ELSE R(e3, NilV, NoErr)
            : r \in {evalBlockStatement(
                       Log(b.e, [ev |-> "body_enter", act |-> b.e.cur,
                                 vars |-> b.e.vars]),
                       fn.Body)} })
        : b \in {bindArguments([e EXCEPT !.vars = fn.Env], fn, args, 1, e.vars)} })

\* the call as it would be if the body started from the caller's bindings
callUserFunctionFromCaller(e, fn, args) ==
    IF Len(args) # Len(fn.Parameters)
    THEN R(e, NilV, Errorf("wrong number of arguments"))
    ELSE The({
        IF b.err # NoErr THEN R([b.e EXCEPT !.vars = b.savedVars], NilV, b.err)
        ELSE The({
            LET e3 == Log([r.e EXCEPT !.vars = b.savedVars],
                          [ev |-> "body_exit", act |-> r.e.cur, err |-> r.err])
            IN  IF r.err.k = "return" THEN R(e3, r.err.Value, NoErr)
                ELSE IF r.err # NoErr THEN R(e3, NilV, r.err)
                ELSE R(e3, NilV, NoErr)
            : r \in {evalBlockStatement(
                       Log(b.e, [ev |-> "body_enter", act |-> b.e.cur,
                                 vars |-> b.e.vars]),
                       fn.Body)} })
        : b \in {bindArguments([e EXCEPT !.vars = e.vars], fn, args, 1, e.vars)} })

\* the call as it would be if a failing argument left the callee's bindings
\* in place
callUserFunctionLeavingCallee(e, fn, args) ==
    IF Len(args) # Len(fn.Parameters)
    THEN R(e, NilV, Errorf("wrong number of arguments"))
    ELSE The({
        IF b.err # NoErr THEN R(b.e, NilV, b.err)
        ELSE The({
            LET e3 == Log([r.e EXCEPT !.vars = b.savedVars],
                          [ev |-> "body_exit", act |-> r.e.cur, err |-> r.err])
            IN  IF r.err.k = "return" THEN R(e3, r.err.Value, NoErr)
                ELSE IF r.err # NoErr THEN R(e3, NilV, r.err)
                ELSE R(e3, NilV, NoErr)
            : r \in {evalBlockStatement(
                       Log(b.e, [ev |-> "body_enter", act |-> b.e.cur,
                                 vars |-> b.e.vars]),
                       fn.Body)} })
        : b \in {bindArguments([e EXCEPT !.vars = fn.Env], fn, args, 1, e.vars)} })

\* the call as it would be if only missing arguments were rejected
callUserFunctionTooFewOnly(e, fn, args) ==
    IF Len(args) < Len(fn.Parameters)
    THEN R(e, NilV, Errorf("wrong number of arguments"))
    ELSE The({
        IF b.err # NoErr THEN R([b.e EXCEPT !.vars = b.savedVars], NilV, b.err)
        ELSE The({
            LET e3 == Log([r.e EXCEPT !.vars = b.savedVars],
                          [ev |-> "body_exit", act |-> r.e.cur, err |-> r.err])
            IN  IF r.err.k = "return" THEN R(e3, r.err.Value, NoErr)
                ELSE IF r.err # NoErr THEN R(e3, NilV, r.err)
                ELSE R(e3, NilV, NoErr)
            : r \in {evalBlockStatement(
                       Log(b.e, [ev |-> "body_enter", act |-> b.e.cur,
                                 vars |-> b.e.vars]),
                       fn.Body)} })
        : b \in {bindArguments([e EXCEPT !.vars = fn.Env], fn, args, 1, e.vars)} })

\* the call as it would be if it turned a break or continue that leaves the
\* body into an ordinary error
callUserFunctionSignalIsError(e, fn, args) ==
    IF Len(args) # Len(fn.Parameters)
    THEN R(e, NilV, Errorf("wrong number of arguments"))
    ELSE The({
        IF b.err # NoErr THEN R([b.e EXCEPT !.vars = b.savedVars], NilV, b.err)
        ELSE The({
            LET e3 == Log([r.e EXCEPT !.vars = b.savedVars],
                          [ev |-> "body_exit", act |-> r.e.cur, err |-> r.err])
            IN  IF r.err.k = "return" THEN R(e3, r.err.Value, NoErr)
                ELSE IF r.err.k \in {"break", "continue"}
                THEN R(e3, NilV, Errorf("break or continue outside loop"))
                ELSE IF r.err # NoErr THEN R(e3, NilV, r.err)
                ELSE R(e3, NilV, NoErr)
            : r \in {evalBlockStatement(
                       Log(b.e, [ev |-> "body_enter", act |-> b.e.cur,
                                 vars |-> b.e.vars]),
                       fn.Body)} })
        : b \in {bindArguments([e EXCEPT !.vars = fn.Env], fn, args, 1, e.vars)} })

callUserFunction(e, fn, args) ==
    IF Len(args) # Len(fn.Parameters)
    THEN R(e, NilV, Errorf("wrong number of arguments"))
    ELSE The({
        IF b.err # NoErr THEN R([b.e EXCEPT !.vars = b.savedVars], NilV, b.err)
        ELSE The({
            LET e3 == Log([r.e EXCEPT !.vars = b.savedVars],
                          [ev |-> "body_exit", act |-> r.e.cur, err |-> r.err])
            IN  IF r.err.k = "return" THEN R(e3, r.err.Value, NoErr)
                ELSE IF r.err # NoErr THEN R(e3, NilV, r.err)
                ELSE R(e3, NilV, NoErr)
            : r \in {evalBlockStatement(
                       Log(b.e, [ev |-> "body_enter", act |-> b.e.cur,
                                 vars |-> b.e.vars]),
                       fn.Body)} })
        : b \in {bindArguments([e EXCEPT !.vars = fn.Env], fn, args, 1, e.vars)} })

\* vars is a Go map passed by reference: the result carries it as it is after
\* the evaluation
evalExpressionInEnv(e, expr, vars) ==
    LET savedVars == e.vars IN
    The({[e |-> [r.e EXCEPT !.vars = savedVars], val |-> r.val, err |-> r.err,
          vars |-> r.e.vars]
         : r \in {evalExpressionValue([e EXCEPT !.vars = vars], expr)}})

\* make([]Value, n) panics for n < 0; nothing recovers, the process ends
Panic(m) == [k |-> "panic", msg |-> m]

\* range as it would be if it counted from 1
builtinRangeFromOne(e, args) ==
    IF Len(args) # 1 THEN R(e, NilV, Errorf("range() takes exactly 1 argument"))
    ELSE The({
        IF v.err # NoErr THEN R(v.e, NilV, v.err)
        ELSE LET n == valueToInt64(v.val)
                 \* history: range has been given an integer
                 done(val, err) == Log(v.e, [ev |-> "range", n |-> n.n, val |-> val,
                                             err |-> err])
             IN
             IF ~n.ok THEN R(v.e, NilV, Errorf("range() argument must be an integer"))
             ELSE IF n.n < 0
             THEN R(done(NilV, Panic("makeslice: len out of range")), NilV,
                    Panic("makeslice: len out of range"))
             ELSE R(done(ArrV([i \in 1..n.n |-> IntV(i)]), NoErr),
                    ArrV([i \in 1..n.n |-> IntV(i)]), NoErr)
        : v \in {evalExpressionValue(e, args[1])} })

builtinRange(e, args) ==
    IF Len(args) # 1 THEN R(e, NilV, Errorf("range() takes exactly 1 argument"))
    ELSE The({
        IF v.err # NoErr THEN R(v.e, NilV, v.err)
        ELSE LET n == valueToInt64(v.val)
                 \* history: range has been given an integer
                 done(val, err) == Log(v.e, [ev |-> "range", n |-> n.n, val |-> val,
                                             err |-> err])
             IN
             IF ~n.ok THEN R(v.e, NilV, Errorf("range() argument must be an integer"))
             ELSE IF n.n < 0
             THEN R(done(NilV, Panic("makeslice: len out of range")), NilV,
                    Panic("makeslice: len out of range"))
             ELSE R(done(ArrV([i \in 1..n.n |-> IntV(i - 1)]), NoErr),
                    ArrV([i \in 1..n.n |-> IntV(i - 1)]), NoErr)
        : v \in {evalExpressionValue(e, args[1])} })

\* append as it would be if it wrote the new element into the array its
\* first argument and every variable sharing it hold
builtinAppendInPlace(e, args) ==
    IF Len(args) # 2 THEN R(e, NilV, Errorf("append() takes exactly 2 arguments"))
    ELSE The({
        IF a.err # NoErr THEN R(a.e, NilV, a.err)
        ELSE IF a.val.t # "arr"
        THEN R(a.e, NilV, Errorf("append() first argument must be an array"))
        ELSE The({IF v.err # NoErr THEN R(v.e, NilV, v.err)
                  ELSE \* history: append has made its result
                       LET e1 == [v.e EXCEPT !.vars =
                                    [k \in DOMAIN @ |->
                                        IF @[k].t = "arr" /\ @[k] = a.val
                                        THEN ArrV(Append(a.val.a, v.val)) ELSE @[k]]]
                       IN  R(Log(e1, [ev |-> "append", arr |-> a.val, val |-> v.val,
                                      result |-> ArrV(Append(a.val.a, v.val)),
                                      varsBefore |-> e.vars, varsAfter |-> e1.vars]),
                             ArrV(Append(a.val.a, v.val)), NoErr)
                  : v \in {evalExpressionValue(a.e, args[2])}})
        : a \in {evalExpressionValue(e, args[1])} })

builtinAppend(e, args) ==
    IF Len(args) # 2 THEN R(e, NilV, Errorf("append() takes exactly 2 arguments"))
    ELSE The({
        IF a.err # NoErr THEN R(a.e, NilV, a.err)
        ELSE IF a.val.t # "arr"
        THEN R(a.e, NilV, Errorf("append() first argument must be an array"))
        ELSE The({IF v.err # NoErr THEN R(v.e, NilV, v.err)
                  ELSE \* history: append has made its result
                       LET e1 == v.e
                       IN  R(Log(e1, [ev |-> "append", arr |-> a.val, val |-> v.val,
                                      result |-> ArrV(Append(a.val.a, v.val)),
                                      varsBefore |-> e.vars, varsAfter |-> e1.vars]),
                             ArrV(Append(a.val.a, v.val)), NoErr)
                  : v \in {evalExpressionValue(a.e, args[2])}})
        : a \in {evalExpressionValue(e, args[1])} })

builtinLen(e, args) ==
    IF Len(args) # 1 THEN R(e, NilV, Errorf("len() takes exactly 1 argument"))
    ELSE The({
        IF v.err # NoErr THEN R(v.e, NilV, v.err)
        ELSE IF v.val.t = "str" THEN R(v.e, IntV(Len(v.val.s)), NoErr)
        ELSE IF v.val.t = "arr" THEN R(v.e, IntV(Len(v.val.a)), NoErr)
        ELSE R(v.e, NilV, Errorf("len() argument must be string or array"))
        : v \in {evalExpressionValue(e, args[1])} })

\* the element loop of evalArrayLiteral
evalArrayElements(e, elems, acc) ==
    IF elems = << >> THEN R(e, ArrV(acc), NoErr)
    ELSE The({IF r.err # NoErr THEN R(r.e, NilV, r.err)
              ELSE evalArrayElements(r.e, Tail(elems), Append(acc, r.val))
              : r \in {evalExpressionValue(e, Head(elems))}})

evalArrayLiteral(e, node) ==
    IF node.TypeHint # "" THEN R(e, ArrV(<< >>), NoErr)
    ELSE evalArrayElements(e, node.Elements, << >>)

\* indexing as it would be if the bounds test let the length itself through
\* (Go then panics on arr[len(arr)])
evalIndexExpressionOffByOne(e, node) ==
    The({
        IF l.err # NoErr THEN R(l.e, NilV, l.err)
        ELSE The({
            IF x.err # NoErr THEN R(x.e, NilV, x.err)
            ELSE IF l.val.t = "dict"
            THEN LET key == valueToString(x.val)
                     at  == {i \in 1..Len(l.val.pairs) : l.val.pairs[i].k = key}
                 IN  IF at # {} THEN R(x.e, l.val.pairs[The(at)].v, NoErr)
                     ELSE R(x.e, NilV, Errorf("key not found"))
            ELSE IF l.val.t # "arr"
            THEN R(x.e, NilV, Errorf("index operator not supported"))
            ELSE LET idx == valueToInt64(x.val)
                     \* history: an array has been indexed with an integer
                     done(val, err) ==
                         Log(x.e, [ev |-> "index", arr |-> l.val.a, idx |-> idx.n,
                                   val |-> val, err |-> err])
                 IN
                 IF ~idx.ok THEN R(x.e, NilV, Errorf("array index must be an integer"))
                 ELSE IF idx.n < 0 \/ idx.n > Len(l.val.a)
                 THEN R(done(NilV, Errorf("array index out of bounds")), NilV,
                        Errorf("array index out of bounds"))
                 ELSE IF idx.n = Len(l.val.a)
                 THEN R(done(NilV, Panic("index out of range")), NilV,
                        Panic("index out of range"))
                 ELSE R(done(l.val.a[idx.n + 1], NoErr), l.val.a[idx.n + 1], NoErr)
            : x \in {evalExpressionValue(l.e, node.Index)} })
        : l \in {evalExpressionValue(e, node.Left)} })

\* (dictionaries are not among the values of the programs evaluated here)
evalIndexExpression(e, node) ==
    The({
        IF l.err # NoErr THEN R(l.e, NilV, l.err)
        ELSE The({
            IF x.err # NoErr THEN R(x.e, NilV, x.err)
            ELSE IF l.val.t = "dict"
            THEN LET key == valueToString(x.val)
                     at  == {i \in 1..Len(l.val.pairs) : l.val.pairs[i].k = key}
                 IN  IF at # {} THEN R(x.e, l.val.pairs[The(at)].v, NoErr)
                     ELSE R(x.e, NilV, Errorf("key not found"))
            ELSE IF l.val.t # "arr"
            THEN R(x.e, NilV, Errorf("index operator not supported"))
            ELSE LET idx == valueToInt64(x.val)
                     \* history: an array has been indexed with an integer
                     done(val, err) ==
                         Log(x.e, [ev |-> "index", arr |-> l.val.a, idx |-> idx.n,
                                   val |-> val, err |-> err])
                 IN
                 IF ~idx.ok THEN R(x.e, NilV, Errorf("array index must be an integer"))
                 ELSE IF idx.n < 0 \/ idx.n >= Len(l.val.a)
                 THEN R(done(NilV, Errorf("array index out of bounds")), NilV,
                        Errorf("array index out of bounds"))
                 ELSE R(done(l.val.a[idx.n + 1], NoErr), l.val.a[idx.n + 1], NoErr)
            : x \in {evalExpressionValue(l.e, node.Index)} })
        : l \in {evalExpressionValue(e, node.Left)} })

\* the third argument of slice, or the length of the array when there is none
sliceEnd(e, args, n) ==
    IF Len(args) # 3 THEN [e |-> e, n |-> n, err |-> NoErr]
    ELSE The({
        IF v.err # NoErr THEN [e |-> v.e, n |-> 0, err |-> v.err]
        ELSE IF ~valueToInt64(v.val).ok
        THEN [e |-> v.e, n |-> 0,
              err |-> Errorf("slice() third argument must be an integer")]
        ELSE [e |-> v.e, n |-> valueToInt64(v.val).n, err |-> NoErr]
        : v \in {evalExpressionValue(e, args[3])} })

builtinSlice(e, args) ==
    IF Len(args) < 2 \/ Len(args) > 3
    THEN R(e, NilV, Errorf("slice() takes 2 or 3 arguments"))
    ELSE The({
        IF a.err # NoErr THEN R(a.e, NilV, a.err)
        ELSE IF a.val.t # "arr"
        THEN R(a.e, NilV, Errorf("slice() first argument must be an array"))
        ELSE The({
            IF s.err # NoErr THEN R(s.e, NilV, s.err)
            ELSE IF ~valueToInt64(s.val).ok
            THEN R(s.e, NilV, Errorf("slice() second argument must be an integer"))
            ELSE The({
                IF en.err # NoErr THEN R(en.e, NilV, en.err)
                ELSE LET arr   == a.val.a
                         start == IF valueToInt64(s.val).n < 0 THEN 0
                                  ELSE valueToInt64(s.val).n
                         end   == IF en.n > Len(arr) THEN Len(arr) ELSE en.n
                         \* history: slice has been given an array and integers
                         done(val, err) ==
                             Log(en.e, [ev |-> "slice", arr |-> arr,
                                        start |-> valueToInt64(s.val).n, end |-> en.n,
                                        val |-> val, err |-> err])
                     IN  IF start > end THEN R(done(ArrV(<< >>), NoErr), ArrV(<< >>), NoErr)
                         ELSE R(done(ArrV(SubSeq(arr, start + 1, end)), NoErr),
                                ArrV(SubSeq(arr, start + 1, end)), NoErr)
                : en \in {sliceEnd(s.e, args, Len(a.val.a))} })
            : s \in {evalExpressionValue(a.e, args[2])} })
        : a \in {evalExpressionValue(e, args[1])} })

\* the loop of evalDictLiteral over the pairs still to come
evalDictPairs(e, pairs, dict) ==
    IF pairs = << >> THEN R(e, DictV(dict, e.mapOrder[2]), NoErr)
    ELSE The({
        IF key.err # NoErr THEN R(key.e, NilV, key.err)
        ELSE The({
            IF value.err # NoErr THEN R(value.e, NilV, value.err)
            ELSE evalDictPairs(value.e, Tail(pairs),
                               DictPut(dict, valueToString(key.val), value.val))
            : value \in {evalExpressionValue(key.e, Head(pairs)[2])} })
        : key \in {evalExpressionValue(e, Head(pairs)[1])} })

\* node.Pairs is a Go map too: its pairs come in the order the parser stored
\* them or in the opposite one
evalDictLiteral(e, node) ==
    evalDictPairs(e, RangeOver(node.Pairs, e.mapOrder[1]), << >>)

\* ------------------------------------------------------------------------
\* Programs handed to Eval (one REPL line or one script each), written as
\* the AST of the source text given in the comment
\* ------------------------------------------------------------------------

Say(args) == Command("print", args)

Cat(args) == Command("show", args)

Range(n) == CallExpression(<<"r", "a", "n", "g", "e">>, <<IntegerLiteral(n)>>)

Prog(name, stmts) == [name |-> name, Statements |-> stmts]

\* pipes and redirections
IOPrograms ==
    LET
        \* print hi | print
        PPipe ==
            Prog("pipe", <<ExpressionStatement(
                PipeExpression(Say(<<Identifier(<<"h", "i">>)>>), Say(<< >>)))>>)
        \* show | print              (the left side fails: show without a file)
        PPipeLeftErr ==
            Prog("pipe_left_err", <<ExpressionStatement(
                PipeExpression(Cat(<< >>), Say(<< >>)))>>)
        \* print a | show            (the right side fails)
        PPipeRightErr ==
            Prog("pipe_right_err", <<ExpressionStatement(
                PipeExpression(Say(<<Identifier(<<"a">>)>>), Cat(<< >>)))>>)
        \* print a | whoami | print  (left-nested chain; whoami ignores its input)
        PPipeChain ==
            Prog("pipe_chain", <<ExpressionStatement(
                PipeExpression(PipeExpression(Say(<<Identifier(<<"a">>)>>), Command("whoami", << >>)),
                               Say(<< >>)))>>)
        \* print b | print > f
        PPipeRedir ==
            Prog("pipe_redir", <<ExpressionStatement(
                RedirectionExpression(">",
                    PipeExpression(Say(<<Identifier(<<"b">>)>>), Say(<< >>)),
                    Identifier(<<"f">>)))>>)
        \* print $V >> g ; show g
        PAppend ==
            Prog("append", <<ExpressionStatement(
                RedirectionExpression(">>", Say(<<VariableReference(<<"V">>)>>), Identifier(<<"g">>))),
                ExpressionStatement(Cat(<<Identifier(<<"g">>)>>))>>)
        \* show | print > f          (the redirected pipe fails on its left side)
        PRedirCmdErr ==
            Prog("redir_cmd_err", <<ExpressionStatement(
                RedirectionExpression(">", PipeExpression(Cat(<< >>), Say(<< >>)),
                                      Identifier(<<"f">>)))>>)
        \* print a > /n/f            (the target cannot be created)
        PRedirBadTarget ==
            Prog("redir_bad_target", <<ExpressionStatement(
                RedirectionExpression(">", Say(<<Identifier(<<"a">>)>>),
                                      PathExpression(<<"/", "n", "/", "f">>)))>>)
        \* print < f                 (f exists only after an earlier > f)
        PRedirIn ==
            Prog("redir_in", <<ExpressionStatement(
                RedirectionExpression("<", Say(<< >>), Identifier(<<"f">>)))>>)
        \* print < g | print         (parsed as (print < g) | print by a pipe-first reading)
        PRedirInPipe ==
            Prog("redir_in_pipe", <<ExpressionStatement(
                PipeExpression(RedirectionExpression("<", Say(<< >>), Identifier(<<"g">>)),
                               Say(<< >>)))>>)
        \* print a << EOF
        PHeredoc ==
            Prog("heredoc", <<ExpressionStatement(
                RedirectionExpression("<<", Say(<<Identifier(<<"a">>)>>), Identifier(<<"E">>)))>>)
        \* print a > f > f          (parsed as (print a > f) > f)
        PRedirNest ==
            Prog("redir_nest", <<ExpressionStatement(
                RedirectionExpression(">",
                    RedirectionExpression(">", Say(<<Identifier(<<"a">>)>>), Identifier(<<"f">>)),
                    Identifier(<<"f">>)))>>)
        \* print b > g >> g         (parsed as (print b > g) >> g)
        PRedirNestAppend ==
            Prog("redir_nest_append", <<ExpressionStatement(
                RedirectionExpression(">>",
                    RedirectionExpression(">", Say(<<Identifier(<<"b">>)>>), Identifier(<<"g">>)),
                    Identifier(<<"g">>)))>>)
        \* mkfile g >> g
        PMkfileAppend ==
            Prog("mkfile_append", <<ExpressionStatement(
                RedirectionExpression(">>", Command("mkfile", <<Identifier(<<"g">>)>>),
                                      Identifier(<<"g">>)))>>)
        \* mkfile f | cd / << ~/x   (parsed as (mkfile f | cd /) << ~/x)
        PHeredocPipe ==
            Prog("heredoc_pipe", <<ExpressionStatement(
                RedirectionExpression("<<",
                    PipeExpression(Command("mkfile", <<Identifier(<<"f">>)>>),
                                   Command("cd", <<PathExpression(<<"/">>)>>)),
                    PathExpression(<<"~", "/", "x">>)))>>)
        \* print a > c << $V ; x = 1     (parsed as (print a > c) << $V)
        PHeredocRedir ==
            Prog("heredoc_redir", <<ExpressionStatement(
                RedirectionExpression("<<",
                    RedirectionExpression(">", Say(<<Identifier(<<"a">>)>>), Identifier(<<"c">>)),
                    VariableReference(<<"V">>))),
                AssignmentStatement(<<"x">>, IntegerLiteral(1))>>)
    IN  {PPipe, PPipeLeftErr, PPipeRightErr, PPipeChain, PPipeRedir,
         PAppend, PRedirCmdErr, PRedirBadTarget, PRedirIn, PRedirInPipe,
         PHeredoc,
         PRedirNest, PRedirNestAppend, PMkfileAppend,
         PHeredocPipe, PHeredocRedir}

\* errors, loops and signals at top level
ControlPrograms ==
    LET
        \* x = 1 ; cd ~ ; show ; x = 2
        PErrMid ==
            Prog("err_mid", <<AssignmentStatement(<<"x">>, IntegerLiteral(1)),
                ExpressionStatement(Command("cd", <<PathExpression(<<"/", "h">>)>>)),
                ExpressionStatement(Cat(<< >>)),
                AssignmentStatement(<<"x">>, IntegerLiteral(2))>>)
        \* for i in range(10) { if i == 5 { break } print i }
        PForBreak ==
            Prog("for_break", <<ForStatement(<<"i">>, Range(10), BlockStatement(<<
                IfStatement(InfixExpression(Identifier(<<"i">>), "==", IntegerLiteral(5)),
                            BlockStatement(<<BreakStatement>>), NilNode),
                ExpressionStatement(Say(<<Identifier(<<"i">>)>>))>>))>>)
        \* for i in range(4) { if i == 1 { continue } print i }
        PForContinue ==
            Prog("for_continue", <<ForStatement(<<"i">>, Range(4), BlockStatement(<<
                IfStatement(InfixExpression(Identifier(<<"i">>), "==", IntegerLiteral(1)),
                            BlockStatement(<<ContinueStatement>>), NilNode),
                ExpressionStatement(Say(<<Identifier(<<"i">>)>>))>>))>>)
        \* for i in range(3) { switch i { case 0: { continue } case 2, 1: { break } } y = i } ; x = 3
        PForSwitch ==
            Prog("for_switch", <<ForStatement(<<"i">>, Range(3), BlockStatement(<<
                SwitchStatement(Identifier(<<"i">>),
                    <<CaseClause(<<IntegerLiteral(0)>>, BlockStatement(<<ContinueStatement>>)),
                      CaseClause(<<IntegerLiteral(2), IntegerLiteral(1)>>,
                                 BlockStatement(<<BreakStatement>>))>>,
                    NilNode),
                AssignmentStatement(<<"y">>, Identifier(<<"i">>))>>)),
                AssignmentStatement(<<"x">>, IntegerLiteral(3))>>)
        \* for i in [1, 2, 3] { y = i ; for a in [7, 8] { if a == 8 { break } y = y + a }
        \*                       if i == 2 { show } }
        PForErr ==
            Prog("for_err", <<ForStatement(<<"i">>,
                ArrayLiteral(<<IntegerLiteral(1), IntegerLiteral(2), IntegerLiteral(3)>>, ""),
                BlockStatement(<<
                    AssignmentStatement(<<"y">>, Identifier(<<"i">>)),
                    ForStatement(<<"a">>, ArrayLiteral(<<IntegerLiteral(7), IntegerLiteral(8)>>, ""),
                        BlockStatement(<<
                            IfStatement(InfixExpression(Identifier(<<"a">>), "==", IntegerLiteral(8)),
                                        BlockStatement(<<BreakStatement>>), NilNode),
                            AssignmentStatement(<<"y">>,
                                InfixExpression(Identifier(<<"y">>), "+", Identifier(<<"a">>)))>>)),
                    IfStatement(InfixExpression(Identifier(<<"i">>), "==", IntegerLiteral(2)),
                                BlockStatement(<<ExpressionStatement(Cat(<< >>))>>), NilNode)>>))>>)
        \* x = 1 ; break ; x = 2
        PTopBreak ==
            Prog("top_break", <<AssignmentStatement(<<"x">>, IntegerLiteral(1)), BreakStatement,
                AssignmentStatement(<<"x">>, IntegerLiteral(2))>>)
        \* if x == 1 { continue } ; x = 4
        PTopContinue ==
            Prog("top_continue", <<
                IfStatement(InfixExpression(Identifier(<<"x">>), "==", IntegerLiteral(1)),
                            BlockStatement(<<ContinueStatement>>), NilNode),
                AssignmentStatement(<<"x">>, IntegerLiteral(4))>>)
        \* for i in range(3) { if i == 1 { return i } } ; x = 5
        PTopReturn ==
            Prog("top_return", <<ForStatement(<<"i">>, Range(3), BlockStatement(<<
                IfStatement(InfixExpression(Identifier(<<"i">>), "==", IntegerLiteral(1)),
                            BlockStatement(<<ReturnStatement(Identifier(<<"i">>))>>), NilNode)>>)),
                AssignmentStatement(<<"x">>, IntegerLiteral(5))>>)
        \* a = [1, 2, 3] ; for i in a { print i ; a = [9] ; i = 7 ; print i } ; print a
        PForReassign ==
            Prog("for_reassign", <<
                AssignmentStatement(<<"a">>, ArrayLiteral(<<IntegerLiteral(1), IntegerLiteral(2),
                                                          IntegerLiteral(3)>>, "")),
                ForStatement(<<"i">>, Identifier(<<"a">>), BlockStatement(<<
                    ExpressionStatement(Say(<<Identifier(<<"i">>)>>)),
                    AssignmentStatement(<<"a">>, ArrayLiteral(<<IntegerLiteral(9)>>, "")),
                    AssignmentStatement(<<"i">>, IntegerLiteral(7)),
                    ExpressionStatement(Say(<<Identifier(<<"i">>)>>))>>)),
                ExpressionStatement(Say(<<Identifier(<<"a">>)>>))>>)
        \* a = [1] ; for i in a { if len(a) < 3 { a = append(a, i) } } ; y = len(a)
        PForGrow ==
            Prog("for_grow", <<
                AssignmentStatement(<<"a">>, ArrayLiteral(<<IntegerLiteral(1)>>, "")),
                ForStatement(<<"i">>, Identifier(<<"a">>), BlockStatement(<<
                    IfStatement(InfixExpression(
                                    CallExpression(<<"l", "e", "n">>, <<Identifier(<<"a">>)>>),
                                    "<", IntegerLiteral(3)),
                                BlockStatement(<<AssignmentStatement(<<"a">>,
                                    CallExpression(<<"a", "p", "p", "e", "n", "d">>,
                                        <<Identifier(<<"a">>), Identifier(<<"i">>)>>))>>),
                                NilNode)>>)),
                AssignmentStatement(<<"y">>,
                    CallExpression(<<"l", "e", "n">>, <<Identifier(<<"a">>)>>))>>)
    IN  {PErrMid, PForBreak, PForContinue, PForSwitch, PForErr,
         PTopBreak, PTopContinue, PTopReturn, PForReassign, PForGrow}

\* function definitions and calls
FunctionPrograms ==
    LET
        \* fn add(a, b) { return a + b } ; r = add(3, 4)
        PAdd ==
            Prog("add", <<FunctionStatement(<<"a", "d", "d">>, <<<<"a">>, <<"b">>>>, BlockStatement(<<
                    ReturnStatement(InfixExpression(Identifier(<<"a">>), "+", Identifier(<<"b">>)))>>)),
                AssignmentStatement(<<"r">>, CallExpression(<<"a", "d", "d">>, <<IntegerLiteral(3), IntegerLiteral(4)>>))>>)
        \* a = 5 ; fn f(a, b) { c = a ; a = b ; return b } ; a = 9 ; r = f(1, a)
        PParams ==
            Prog("params", <<AssignmentStatement(<<"a">>, IntegerLiteral(5)),
                FunctionStatement(<<"f">>, <<<<"a">>, <<"b">>>>, BlockStatement(<<
                    AssignmentStatement(<<"c">>, Identifier(<<"a">>)),
                    AssignmentStatement(<<"a">>, Identifier(<<"b">>)),
                    ReturnStatement(Identifier(<<"b">>))>>)),
                AssignmentStatement(<<"a">>, IntegerLiteral(9)),
                AssignmentStatement(<<"r">>, CallExpression(<<"f">>, <<IntegerLiteral(1), Identifier(<<"a">>)>>))>>)
        \* x = 1 ; fn g() { y = x ; x = x + 10 ; return x } ; x = 2 ; r = g() ; r = r + g()
        PSnapshot ==
            Prog("snapshot", <<AssignmentStatement(<<"x">>, IntegerLiteral(1)),
                FunctionStatement(<<"g">>, << >>, BlockStatement(<<
                    AssignmentStatement(<<"y">>, Identifier(<<"x">>)),
                    AssignmentStatement(<<"x">>, InfixExpression(Identifier(<<"x">>), "+", IntegerLiteral(10))),
                    ReturnStatement(Identifier(<<"x">>))>>)),
                AssignmentStatement(<<"x">>, IntegerLiteral(2)),
                AssignmentStatement(<<"r">>, CallExpression(<<"g">>, << >>)),
                AssignmentStatement(<<"r">>,
                    InfixExpression(Identifier(<<"r">>), "+", CallExpression(<<"g">>, << >>)))>>)
        \* r = f(x, g())             (f and g as an earlier Eval left them, if at all)
        PCallLater ==
            Prog("call_later", <<AssignmentStatement(<<"r">>,
                CallExpression(<<"f">>, <<Identifier(<<"x">>), CallExpression(<<"g">>, << >>)>>))>>)
        \* x = x + 1 ; r = g()
        PCallG ==
            Prog("call_g", <<
                AssignmentStatement(<<"x">>, InfixExpression(Identifier(<<"x">>), "+", IntegerLiteral(1))),
                AssignmentStatement(<<"r">>, CallExpression(<<"g">>, << >>))>>)
        \* fn h(a) { x = 0 } ; x = 1 ; r = h(x, add(1, 2)) ; x = 2
        PArgCount ==
            Prog("arg_count", <<FunctionStatement(<<"h">>, <<<<"a">>>>, BlockStatement(<<
                    AssignmentStatement(<<"x">>, IntegerLiteral(0))>>)),
                AssignmentStatement(<<"x">>, IntegerLiteral(1)),
                AssignmentStatement(<<"r">>, CallExpression(<<"h">>,
                    <<Identifier(<<"x">>), CallExpression(<<"a", "d", "d">>, <<IntegerLiteral(1), IntegerLiteral(2)>>)>>)),
                AssignmentStatement(<<"x">>, IntegerLiteral(2))>>)
        \* fn g(a) { for i in range(a) { switch i { case 2: { return i + 40 } } print i }
        \*           print a ; return 0 } ; r = g(4)
        PRetNested ==
            Prog("ret_nested", <<FunctionStatement(<<"g">>, <<<<"a">>>>, BlockStatement(<<
                    ForStatement(<<"i">>, CallExpression(<<"r", "a", "n", "g", "e">>, <<Identifier(<<"a">>)>>), BlockStatement(<<
                        SwitchStatement(Identifier(<<"i">>),
                            <<CaseClause(<<IntegerLiteral(2)>>, BlockStatement(<<
                                ReturnStatement(InfixExpression(Identifier(<<"i">>), "+",
                                                                IntegerLiteral(40)))>>))>>,
                            NilNode),
                        ExpressionStatement(Say(<<Identifier(<<"i">>)>>))>>)),
                    ExpressionStatement(Say(<<Identifier(<<"a">>)>>)),
                    ReturnStatement(IntegerLiteral(0))>>)),
                AssignmentStatement(<<"r">>, CallExpression(<<"g">>, <<IntegerLiteral(4)>>))>>)
        \* fn h() { y = 1 ; if y == 2 { return } } ; r = h() ; fn h() { return } ; x = h()
        PNoRet ==
            Prog("no_ret", <<FunctionStatement(<<"h">>, << >>, BlockStatement(<<
                    AssignmentStatement(<<"y">>, IntegerLiteral(1)),
                    IfStatement(InfixExpression(Identifier(<<"y">>), "==", IntegerLiteral(2)),
                                BlockStatement(<<ReturnStatement(NilNode)>>), NilNode)>>)),
                AssignmentStatement(<<"r">>, CallExpression(<<"h">>, << >>)),
                FunctionStatement(<<"h">>, << >>, BlockStatement(<<ReturnStatement(NilNode)>>)),
                AssignmentStatement(<<"x">>, CallExpression(<<"h">>, << >>))>>)
        \* fn fact(a) { if a <= 1 { return 1 } b = a ; return fact(a - 1) * b } ; r = fact(3)
        PFact ==
            Prog("fact", <<FunctionStatement(<<"f", "a", "c", "t">>, <<<<"a">>>>, BlockStatement(<<
                    IfStatement(InfixExpression(Identifier(<<"a">>), "<=", IntegerLiteral(1)),
                                BlockStatement(<<ReturnStatement(IntegerLiteral(1))>>), NilNode),
                    AssignmentStatement(<<"b">>, Identifier(<<"a">>)),
                    ReturnStatement(InfixExpression(
                        CallExpression(<<"f", "a", "c", "t">>,
                            <<InfixExpression(Identifier(<<"a">>), "-", IntegerLiteral(1))>>),
                        "*", Identifier(<<"b">>)))>>)),
                AssignmentStatement(<<"r">>, CallExpression(<<"f", "a", "c", "t">>, <<IntegerLiteral(3)>>))>>)
        \* fn brk() { x = 7 ; break } ; for i in range(3) { y = i ; brk() ; y = 9 } ; r = brk()
        PFnBreak ==
            Prog("fn_break", <<FunctionStatement(<<"b", "r", "k">>, << >>, BlockStatement(<<
                    AssignmentStatement(<<"x">>, IntegerLiteral(7)), BreakStatement>>)),
                ForStatement(<<"i">>, Range(3), BlockStatement(<<
                    AssignmentStatement(<<"y">>, Identifier(<<"i">>)),
                    ExpressionStatement(CallExpression(<<"b", "r", "k">>, << >>)),
                    AssignmentStatement(<<"y">>, IntegerLiteral(9))>>)),
                AssignmentStatement(<<"r">>, CallExpression(<<"b", "r", "k">>, << >>))>>)
        \* fn skip() { continue } ; for i in range(2) { y = i ; skip() ; y = 9 } ; x = 1
        PFnContinue ==
            Prog("fn_continue", <<FunctionStatement(<<"s", "k", "i", "p">>, << >>,
                    BlockStatement(<<ContinueStatement>>)),
                ForStatement(<<"i">>, Range(2), BlockStatement(<<
                    AssignmentStatement(<<"y">>, Identifier(<<"i">>)),
                    ExpressionStatement(CallExpression(<<"s", "k", "i", "p">>, << >>)),
                    AssignmentStatement(<<"y">>, IntegerLiteral(9))>>)),
                AssignmentStatement(<<"x">>, IntegerLiteral(1))>>)
        \* fn h(a, b) { return a } ; y = 1 ; r = h(y, 1 / 0)
        PArgErr ==
            Prog("arg_err", <<FunctionStatement(<<"h">>, <<<<"a">>, <<"b">>>>, BlockStatement(<<
                    ReturnStatement(Identifier(<<"a">>))>>)),
                AssignmentStatement(<<"y">>, IntegerLiteral(1)),
                AssignmentStatement(<<"r">>, CallExpression(<<"h">>,
                    <<Identifier(<<"y">>), InfixExpression(IntegerLiteral(1), "/", IntegerLiteral(0))>>))>>)
        \* fn h() { y = 3 ; show ; y = 4 } ; y = 2 ; x = h()
        PBodyErr ==
            Prog("body_err", <<FunctionStatement(<<"h">>, << >>, BlockStatement(<<
                    AssignmentStatement(<<"y">>, IntegerLiteral(3)),
                    ExpressionStatement(Cat(<< >>)),
                    AssignmentStatement(<<"y">>, IntegerLiteral(4))>>)),
                AssignmentStatement(<<"y">>, IntegerLiteral(2)),
                AssignmentStatement(<<"x">>, CallExpression(<<"h">>, << >>))>>)
        \* fn h() { print a | print ; return 1 } ; h() | print > f
        PPipeInFn ==
            Prog("pipe_in_fn", <<FunctionStatement(<<"h">>, << >>, BlockStatement(<<
                    ExpressionStatement(PipeExpression(Say(<<Identifier(<<"a">>)>>), Say(<< >>))),
                    ReturnStatement(IntegerLiteral(1))>>)),
                ExpressionStatement(RedirectionExpression(">",
                    PipeExpression(CallExpression(<<"h">>, << >>), Say(<< >>)), Identifier(<<"f">>)))>>)
    IN  {PAdd, PParams, PSnapshot, PCallLater, PCallG,
         PArgCount, PRetNested, PNoRet, PFact, PFnBreak, PFnContinue,
         PArgErr, PBodyErr, PPipeInFn}

\* operators, switch, arrays and built-in functions
ValuePrograms ==
    LET
        \* fn h() { print hi ; cd / ; return 1 } ; r = 0 && h() ; x = 1 || h() ; y = false && 1 / 0
        PLogicSkip ==
            Prog("logic_skip", <<FunctionStatement(<<"h">>, << >>, BlockStatement(<<
                    ExpressionStatement(Say(<<Identifier(<<"h", "i">>)>>)),
                    ExpressionStatement(Command("cd", <<PathExpression(<<"/">>)>>)),
                    ReturnStatement(IntegerLiteral(1))>>)),
                AssignmentStatement(<<"r">>,
                    InfixExpression(IntegerLiteral(0), "&&", CallExpression(<<"h">>, << >>))),
                AssignmentStatement(<<"x">>,
                    InfixExpression(IntegerLiteral(1), "||", CallExpression(<<"h">>, << >>))),
                AssignmentStatement(<<"y">>,
                    InfixExpression(BooleanLiteral(FALSE), "&&",
                        InfixExpression(IntegerLiteral(1), "/", IntegerLiteral(0))))>>)
        \* r = x && h() ; y = x || (a && h())      (x, a and h as an earlier Eval left them)
        PLogicEval ==
            Prog("logic_eval", <<
                AssignmentStatement(<<"r">>,
                    InfixExpression(Identifier(<<"x">>), "&&", CallExpression(<<"h">>, << >>))),
                AssignmentStatement(<<"y">>,
                    InfixExpression(Identifier(<<"x">>), "||",
                        InfixExpression(Identifier(<<"a">>), "&&", CallExpression(<<"h">>, << >>))))>>)
        \* switch x { case 0, 1: { y = 1 } case "1", 2: { y = 2 } default: { y = 3 } }
        PSwitch ==
            Prog("switch", <<SwitchStatement(Identifier(<<"x">>),
                <<CaseClause(<<IntegerLiteral(0), IntegerLiteral(1)>>,
                             BlockStatement(<<AssignmentStatement(<<"y">>, IntegerLiteral(1))>>)),
                  CaseClause(<<StringLiteral(<<"1">>), IntegerLiteral(2)>>,
                             BlockStatement(<<AssignmentStatement(<<"y">>, IntegerLiteral(2))>>))>>,
                BlockStatement(<<AssignmentStatement(<<"y">>, IntegerLiteral(3))>>))>>)
        \* x = 2 ; switch x + 1 { case 1: { y = 1 } case h(), 3: { y = 2 } case 3: { y = 5 } }
        \* switch x { case 7: { y = 7 } }          (h as an earlier Eval left it, if at all)
        PSwitchCall ==
            Prog("switch_call", <<AssignmentStatement(<<"x">>, IntegerLiteral(2)),
                SwitchStatement(InfixExpression(Identifier(<<"x">>), "+", IntegerLiteral(1)),
                    <<CaseClause(<<IntegerLiteral(1)>>,
                                 BlockStatement(<<AssignmentStatement(<<"y">>, IntegerLiteral(1))>>)),
                      CaseClause(<<CallExpression(<<"h">>, << >>), IntegerLiteral(3)>>,
                                 BlockStatement(<<AssignmentStatement(<<"y">>, IntegerLiteral(2))>>)),
                      CaseClause(<<IntegerLiteral(3)>>,
                                 BlockStatement(<<AssignmentStatement(<<"y">>, IntegerLiteral(5))>>))>>,
                    NilNode),
                SwitchStatement(Identifier(<<"x">>),
                    <<CaseClause(<<IntegerLiteral(7)>>,
                                 BlockStatement(<<AssignmentStatement(<<"y">>, IntegerLiteral(7))>>))>>,
                    NilNode)>>)
        \* y = q ; x = 1            (nothing ever assigns q)
        PUnbound ==
            Prog("unbound", <<AssignmentStatement(<<"y">>, Identifier(<<"q">>)),
                AssignmentStatement(<<"x">>, IntegerLiteral(1))>>)
        \* a = [10, 20, 30] ; r = a[0] ; y = a[2] ; r = a[x]    (x as an earlier Eval left it)
        PIndex ==
            Prog("index", <<AssignmentStatement(<<"a">>, ArrayLiteral(<<IntegerLiteral(10), IntegerLiteral(20), IntegerLiteral(30)>>, "")),
                AssignmentStatement(<<"r">>, IndexExpression(Identifier(<<"a">>), IntegerLiteral(0))),
                AssignmentStatement(<<"y">>, IndexExpression(Identifier(<<"a">>), IntegerLiteral(2))),
                AssignmentStatement(<<"r">>, IndexExpression(Identifier(<<"a">>), Identifier(<<"x">>)))>>)
        \* a = [10, 20, 30] ; y = a[0 - 1] ; x = 9
        PIndexNeg ==
            Prog("index_neg", <<AssignmentStatement(<<"a">>, ArrayLiteral(<<IntegerLiteral(10), IntegerLiteral(20), IntegerLiteral(30)>>, "")),
                AssignmentStatement(<<"y">>, IndexExpression(Identifier(<<"a">>),
                    InfixExpression(IntegerLiteral(0), "-", IntegerLiteral(1)))),
                AssignmentStatement(<<"x">>, IntegerLiteral(9))>>)
        \* a = [10, 20, 30] ; y = a[10] ; x = 9
        PIndexFar ==
            Prog("index_far", <<AssignmentStatement(<<"a">>, ArrayLiteral(<<IntegerLiteral(10), IntegerLiteral(20), IntegerLiteral(30)>>, "")),
                AssignmentStatement(<<"y">>, IndexExpression(Identifier(<<"a">>), IntegerLiteral(10))),
                AssignmentStatement(<<"x">>, IntegerLiteral(9))>>)
        \* c = [] ; y = c[0]
        PIndexEmpty ==
            Prog("index_empty", <<AssignmentStatement(<<"c">>, ArrayLiteral(<< >>, "")),
                AssignmentStatement(<<"y">>, IndexExpression(Identifier(<<"c">>), IntegerLiteral(0)))>>)
        \* r = range(x) ; y = len(r) ; for i in r { print i }    (x as an earlier Eval left it)
        PRange ==
            Prog("range", <<
                AssignmentStatement(<<"r">>, CallExpression(<<"r", "a", "n", "g", "e">>, <<Identifier(<<"x">>)>>)),
                AssignmentStatement(<<"y">>, CallExpression(<<"l", "e", "n">>, <<Identifier(<<"r">>)>>)),
                ForStatement(<<"i">>, Identifier(<<"r">>),
                    BlockStatement(<<ExpressionStatement(Say(<<Identifier(<<"i">>)>>))>>))>>)
        \* r = range(0) ; y = len(r) ; for i in r { print i } ; c = range(3) ; print c
        PRangeZero ==
            Prog("range_zero", <<AssignmentStatement(<<"r">>, Range(0)),
                AssignmentStatement(<<"y">>, CallExpression(<<"l", "e", "n">>, <<Identifier(<<"r">>)>>)),
                ForStatement(<<"i">>, Identifier(<<"r">>),
                    BlockStatement(<<ExpressionStatement(Say(<<Identifier(<<"i">>)>>))>>)),
                AssignmentStatement(<<"c">>, Range(3)),
                ExpressionStatement(Say(<<Identifier(<<"c">>)>>))>>)
        \* a = [1, 2] ; b = a ; c = append(a, 3) ; y = len(a) ; r = append(append(b, x), g())
        \*                                          (x and g as an earlier Eval left them)
        PAppendCopy ==
            Prog("append_copy", <<
                AssignmentStatement(<<"a">>, ArrayLiteral(<<IntegerLiteral(1), IntegerLiteral(2)>>, "")),
                AssignmentStatement(<<"b">>, Identifier(<<"a">>)),
                AssignmentStatement(<<"c">>, CallExpression(<<"a", "p", "p", "e", "n", "d">>,
                    <<Identifier(<<"a">>), IntegerLiteral(3)>>)),
                AssignmentStatement(<<"y">>, CallExpression(<<"l", "e", "n">>, <<Identifier(<<"a">>)>>)),
                AssignmentStatement(<<"r">>, CallExpression(<<"a", "p", "p", "e", "n", "d">>,
                    <<CallExpression(<<"a", "p", "p", "e", "n", "d">>,
                          <<Identifier(<<"b">>), Identifier(<<"x">>)>>),
                      CallExpression(<<"g">>, << >>)>>))>>)
        \* items = []string ; items = append(items, "first")
        \* items = append(items, "second") ; print items
        PAppendDoc ==
            LET items == <<"i", "t", "e", "m", "s">> IN
            Prog("append_doc", <<
                AssignmentStatement(items, ArrayLiteral(<< >>, "string")),
                AssignmentStatement(items, CallExpression(<<"a", "p", "p", "e", "n", "d">>,
                    <<Identifier(items), StringLiteral(<<"f", "i", "r", "s", "t">>)>>)),
                AssignmentStatement(items, CallExpression(<<"a", "p", "p", "e", "n", "d">>,
                    <<Identifier(items), StringLiteral(<<"s", "e", "c", "o", "n", "d">>)>>)),
                ExpressionStatement(Say(<<Identifier(items)>>))>>)
        \* fn g() { return 4 } ; x = 3
        PDefs ==
            Prog("defs", <<FunctionStatement(<<"g">>, << >>, BlockStatement(<<
                    ReturnStatement(IntegerLiteral(4))>>)),
                AssignmentStatement(<<"x">>, IntegerLiteral(3))>>)
    IN  {PLogicSkip, PLogicEval, PSwitch, PSwitchCall, PUnbound,
         PIndex, PIndexNeg, PIndexFar, PIndexEmpty, PRange, PRangeZero,
         PAppendCopy, PAppendDoc, PDefs}

Programs == IOPrograms \cup ControlPrograms \cup FunctionPrograms

\* ------------------------------------------------------------------------
\* State: the Evaluator struct, the files it reaches, and the history of the
\* last Eval call
\* ------------------------------------------------------------------------
VARIABLES
    cwd,        \* Evaluator.cwd
    env,        \* Evaluator.env
    vars,       \* Evaluator.vars
    functions,  \* Evaluator.functions
    stdout,     \* Evaluator.stdout
    stdin,      \* Evaluator.stdin
    files,      \* regular files: path -> content
    home,       \* $HOME of the process (empty: not set)
    handles,    \* the *os.File values opened so far
    bufs,       \* the bytes.Buffer values of the pipes
    console,    \* history: what the last Eval wrote to os.Stdout
    lastErr,    \* the error the last Eval returned
    trace,      \* history: the events of the last Eval
    defVars,    \* history: the bindings at each function's latest definition
    nEvals      \* number of Eval calls made

allVars == <<cwd, env, vars, functions, stdout, stdin, files, home, handles, bufs,
             console, lastErr, trace, defVars, nEvals>>

\* the directories of the file system (none is created or removed here)
Dirs == {<<"/">>, HomeDir, StartDir}

\* New(): cwd from os.Getwd, empty maps, the process's standard streams
Init ==
    /\ cwd = StartDir
    /\ env = EmptyMap
    /\ vars = EmptyMap
    /\ functions = EmptyMap
    /\ stdout = OsStdout
    /\ stdin = OsStdin
    /\ files = MapPut(EmptyMap, StartDir \o <<"/", "g">>, <<"o", NL>>)
    /\ home \in {HomeDir, << >>}
    /\ handles = << >>
    /\ bufs = << >>
    /\ console = << >>
    /\ lastErr = NoErr
    /\ trace = << >>
    /\ defVars = EmptyMap
    /\ nEvals = 0

\* buffers and closed files no stream refers to are garbage
StreamsReferenced == stdout.kind \in {"buf", "file"} \/ stdin.kind \in {"buf", "file"}

\* the evaluator as the driver hands it to Eval
Evaluator(p) ==
    [cwd |-> cwd, env |-> env, vars |-> vars, functions |-> functions,
     stdout |-> stdout, stdin |-> stdin, files |-> files, dirs |-> Dirs,
     home |-> home,
     handles |-> IF StreamsReferenced THEN handles ELSE << >>,
     bufs |-> IF StreamsReferenced THEN bufs ELSE << >>,
     console |-> << >>, nact |-> 0, cur |-> 0, defVars |-> defVars,
     mapOrder |-> <<FALSE, FALSE>>,
     log |-> <<[ev |-> "eval", prog |-> p.name, n |-> Len(p.Statements), vars |-> vars,
                functions |-> functions, cwd |-> cwd]>>]

\* the driver parses one line or script and calls eval.Eval(program); after a
\* panic there is no process left to call it
EvalProgram(p) ==
    /\ nEvals < MaxEvals
    /\ lastErr.k # "panic"
    /\ \E r \in {Eval(Evaluator(p), p)} :
          /\ cwd' = r.e.cwd
          /\ env' = r.e.env
          /\ vars' = r.e.vars
          /\ functions' = r.e.functions
          /\ stdout' = r.e.stdout
          /\ stdin' = r.e.stdin
          /\ files' = r.e.files
          /\ handles' = r.e.handles
          /\ bufs' = r.e.bufs
          /\ console' = r.e.console
          /\ lastErr' = r.err
          /\ trace' = r.e.log
          /\ defVars' = r.e.defVars
    /\ nEvals' = nEvals + 1
    /\ UNCHANGED home

\* SetEnv(name, value)
SetEnv(name, value) ==
    /\ nEvals < MaxEvals
    /\ env' = MapPut(env, name, value)
    /\ UNCHANGED <<cwd, vars, functions, stdout, stdin, files, home, handles, bufs,
                   console, lastErr, trace, defVars, nEvals>>

Next ==
    \/ \E p \in Programs : EvalProgram(p)
    \/ \E value \in {<<"v">>} : SetEnv(<<"V">>, value)

Spec == Init /\ [][Next]_allVars

\* the same driver handed the programs about values: logical operators, switch,
\* identifiers, indexing, range and append
ValueNext ==
    \/ \E p \in ValuePrograms : EvalProgram(p)
    \/ \E value \in {<<"v">>} : SetEnv(<<"V">>, value)

ValueSpec == Init /\ [][ValueNext]_allVars

\* the operands handed to + and to the built-in functions: 2, 0 - 1, 0, 5,
\* "3", "ab", true, [1, 2], {"a": 1} and the nil a function without return
\* gives
OperandExprs ==
    <<IntegerLiteral(2),
      InfixExpression(IntegerLiteral(0), "-", IntegerLiteral(1)),
      IntegerLiteral(0), IntegerLiteral(5),
      StringLiteral(<<"3">>), StringLiteral(<<"a", "b">>), BooleanLiteral(TRUE),
      ArrayLiteral(<<IntegerLiteral(1), IntegerLiteral(2)>>, ""),
      DictLiteral(<< <<StringLiteral(<<"a">>), IntegerLiteral(1)>> >>),
      CallExpression(<<"n">>, << >>)>>

\* fn n() { } ; a = [10, 20, 30] ; x = <kind applied to l and r> ; print x
OperandProgram(kind, l, r) ==
    LET Call(f, args) == CallExpression(f, args)
        slice == <<"s", "l", "i", "c", "e">>
    IN  Prog(kind, <<
            FunctionStatement(<<"n">>, << >>, BlockStatement(<< >>)),
            AssignmentStatement(<<"a">>, ArrayLiteral(<<IntegerLiteral(10),
                IntegerLiteral(20), IntegerLiteral(30)>>, "")),
            AssignmentStatement(<<"x">>,
                CASE kind = "plus"     -> InfixExpression(l, "+", r)
                  [] kind = "range"    -> Call(<<"r", "a", "n", "g", "e">>, <<l>>)
                  [] kind = "len"      -> Call(<<"l", "e", "n">>, <<l>>)
                  [] kind = "append"   -> Call(<<"a", "p", "p", "e", "n", "d">>, <<l, r>>)
                  [] kind = "slice"    -> Call(slice, <<Identifier(<<"a">>), l, r>>)
                  [] kind = "slice_of" -> Call(slice, <<l, r>>)),
            ExpressionStatement(Say(<<Identifier(<<"x">>)>>))>>)

\* dictionaries
DictPrograms ==
    LET Pair(k, n) == <<StringLiteral(k), IntegerLiteral(n)>> IN
    {   \* d = {"a": 1, "b": 2} ; print d ; x = "d=" + d
        Prog("dict_print", <<
            AssignmentStatement(<<"d">>, DictLiteral(<<Pair(<<"a">>, 1), Pair(<<"b">>, 2)>>)),
            ExpressionStatement(Say(<<Identifier(<<"d">>)>>)),
            AssignmentStatement(<<"x">>,
                InfixExpression(StringLiteral(<<"d", "=">>), "+", Identifier(<<"d">>)))>>),
        \* d = {"a": 1, "a": 2} ; x = d["a"] ; print x
        Prog("dict_repeat", <<
            AssignmentStatement(<<"d">>, DictLiteral(<<Pair(<<"a">>, 1), Pair(<<"a">>, 2)>>)),
            AssignmentStatement(<<"x">>,
                IndexExpression(Identifier(<<"d">>), StringLiteral(<<"a">>))),
            ExpressionStatement(Say(<<Identifier(<<"x">>)>>))>>),
        \* d = {"a": 1} ; print d ; x = d["b"]
        Prog("dict_one", <<
            AssignmentStatement(<<"d">>, DictLiteral(<<Pair(<<"a">>, 1)>>)),
            ExpressionStatement(Say(<<Identifier(<<"d">>)>>)),
            AssignmentStatement(<<"x">>,
                IndexExpression(Identifier(<<"d">>), StringLiteral(<<"b">>)))>>)}

\* the driver calls eval.Eval(program) on two evaluators in the same state, as
\* two runs of the same script do, each with an order the runtime takes for
\* the map of a dict literal and for the map made from it; the first is the
\* one that goes on, and the history keeps what the second printed, bound and
\* returned
EvalTwice(p) ==
    /\ nEvals < MaxEvals
    /\ lastErr.k # "panic"
    /\ \E o1 \in BOOLEAN \X BOOLEAN, o2 \in BOOLEAN \X BOOLEAN :
          \E run \in {[o \in {o1, o2} |->
                           Eval([Evaluator(p) EXCEPT !.mapOrder = o], p)]} :
          \E r \in {run[o1]}, r2 \in {run[o2]} :
             /\ cwd' = r.e.cwd
             /\ env' = r.e.env
             /\ vars' = r.e.vars
             /\ functions' = r.e.functions
             /\ stdout' = r.e.stdout
             /\ stdin' = r.e.stdin
             /\ files' = r.e.files
             /\ handles' = r.e.handles
             /\ bufs' = r.e.bufs
             /\ console' = r.e.console
             /\ lastErr' = r.err
             /\ trace' = Append(r.e.log, [ev |-> "again", console |-> r2.e.console,
                                          vars |-> r2.e.vars, err |-> r2.err])
             /\ defVars' = r.e.defVars
    /\ nEvals' = nEvals + 1
    /\ UNCHANGED home

\* the same driver handed, as the first line of a session, + and the
\* built-in functions over every operand, and the programs with dictionaries
OperandNext ==
    /\ trace = << >>
    /\ \E kind \in {"plus", "range", "len", "append", "slice", "slice_of", "dict"} :
          \E l \in 1..Len(OperandExprs), r \in 1..Len(OperandExprs) :
             /\ kind = "dict" => l = 1 /\ r = 1
             /\ \E p \in IF kind = "dict" THEN DictPrograms
                          ELSE {OperandProgram(kind, OperandExprs[l], OperandExprs[r])} :
                   EvalTwice(p)

OperandSpec == Init /\ [][OperandNext]_allVars

\* ------------------------------------------------------------------------
\* resolvePath on its own: every path up to MaxPathLen over the characters
\* that matter to it, in every directory the evaluator can be in, with and
\* without a home directory, and with HOME set or not in the overlay
\* ------------------------------------------------------------------------
PathChars == {"~", "/", ".", "a"}

Paths == UNION {[1..n -> PathChars] : n \in 0..MaxPathLen}

PathInit ==
    /\ cwd \in Dirs
    /\ env = EmptyMap
    /\ vars = EmptyMap
    /\ functions = EmptyMap
    /\ stdout = OsStdout
    /\ stdin = OsStdin
    /\ files = EmptyMap
    /\ home \in {HomeDir, << >>}
    /\ handles = << >>
    /\ bufs = << >>
    /\ console = << >>
    /\ lastErr = NoErr
    /\ trace = << >>
    /\ defVars = EmptyMap
    /\ nEvals = 0

\* e.resolvePath(path); trace keeps the call and its result
ResolvePath(path) ==
    /\ trace' = <<[ev |-> "resolve", path |-> path,
                   result |-> resolvePath(Evaluator(Prog("", << >>)), path)]>>
    /\ UNCHANGED <<cwd, env, vars, functions, stdout, stdin, files, home, handles,
                   bufs, console, lastErr, defVars, nEvals>>

PathNext ==
    \/ \E path \in Paths : ResolvePath(path)
    \/ \E value \in {<<"/", "e">>} : SetEnv(<<"H", "O", "M", "E">>, value)

PathSpec == PathInit /\ [][PathNext]_allVars

\* ------------------------------------------------------------------------
\* The parser (package parser): a Pratt parser over the lexer's tokens.  The
\* Parser struct is the record [toks, pos, errors]: curToken is toks[pos],
\* peekToken is toks[pos + 1], and the lexer returns EOF for ever once the
\* tokens are used up.  A parse function returns the parser after it and
\* the node it built (Go's nil is NilNode).
\* ------------------------------------------------------------------------
LOWEST == 1
REDIRECT == 2
PIPE == 3

Token(type, literal) == [Type |-> type, Literal |-> literal]

\* the keywords among the literals drawn below
TokenMap ==
    <<"l", "s">> :> "LIST" @@ <<"p", "r", "i", "n", "t">> :> "PRINT"
        @@ <<"o", "u", "t", "p", "u", "t">> :> "OUTPUT"

tokenTypeToCommandType(tt) ==
    CASE tt = "LIST"   -> "ls"
      [] tt = "PRINT"  -> "print"
      [] tt = "OUTPUT" -> "output"
      [] OTHER         -> "external"

\* precedences[tt], and whether tt is a key of the table
precedences(tt) ==
    CASE tt = "PIPE" -> [ok |-> TRUE, prec |-> PIPE]
      [] tt \in {"GREATER", "INTO", "LESS", "OUT"} -> [ok |-> TRUE, prec |-> REDIRECT]
      [] OTHER -> [ok |-> FALSE, prec |-> 0]

\* New(l): curToken and peekToken are the first two tokens
New(toks) == [toks |-> toks, pos |-> 1, errors |-> << >>, steps |-> << >>]

curToken(p) == IF p.pos <= Len(p.toks) THEN p.toks[p.pos] ELSE Token("EOF", << >>)

peekToken(p) ==
    IF p.pos + 1 <= Len(p.toks) THEN p.toks[p.pos + 1] ELSE Token("EOF", << >>)

nextToken(p) == [p EXCEPT !.pos = @ + 1]

peekPrecedence(p) ==
    IF precedences(peekToken(p).Type).ok THEN precedences(peekToken(p).Type).prec
    ELSE LOWEST

curPrecedence(p) ==
    IF precedences(curToken(p).Type).ok THEN precedences(curToken(p).Type).prec
    ELSE LOWEST

\* the result of a parse function
PR(p, node) == [p |-> p, node |-> node]

isArgumentToken(tt) ==
    tt \in {"IDENT", "STRING", "INTEGER", "DOLLAR", "FULLSTOP", "FSLASH", "TILDE"}

isPathToken(tt) == tt \in {"IDENT", "FULLSTOP", "FSLASH"}

\* (the integer tokens drawn have no leading 0, so base 0 is base 10)
parseIntegerLiteral(p) ==
    IF ParseInt(curToken(p).Literal).ok
    THEN PR(p, IntegerLiteral(ParseInt(curToken(p).Literal).n))
    ELSE PR([p EXCEPT !.errors = Append(@, <<"could not parse as integer">>)], NilNode)

parseStringLiteral(p) == PR(p, StringLiteral(curToken(p).Literal))

RECURSIVE parsePathTokens(_, _, _)
\* the loop of parsePath and of parsePathFromIdent
parsePathTokens(p, pathStr, lastWasExtension) ==
    IF ~isPathToken(peekToken(p).Type) THEN PR(p, PathExpression(pathStr))
    ELSE IF lastWasExtension /\ peekToken(p).Type # "FSLASH"
    THEN PR(p, PathExpression(pathStr))
    ELSE LET p1  == nextToken(p)
             lit == curToken(p1).Literal
             str == pathStr \o lit
         IN  parsePathTokens(p1, str,
                 /\ curToken(p1).Type = "IDENT"
                 /\ Len(str) > 1
                 /\ str[Len(str) - Len(lit)] = ".")

parsePath(p) == parsePathTokens(p, curToken(p).Literal, FALSE)

parsePathFromIdent(p) == parsePathTokens(p, curToken(p).Literal, FALSE)

parseVariableReference(p) ==
    IF peekToken(p).Type # "IDENT"
    THEN PR([p EXCEPT !.errors = Append(@, <<"expected identifier after $">>)], NilNode)
    ELSE PR(nextToken(p), VariableReference(peekToken(p).Literal))

RECURSIVE parseCommandArguments(_, _)
\* the loop of parseCommandArguments with the arguments collected so far
parseCommandArguments(p, args) ==
    IF ~isArgumentToken(peekToken(p).Type) THEN PR(p, args)
    ELSE LET p1 == nextToken(p)
             tt == curToken(p1).Type
         IN  The({parseCommandArguments(a.p, Append(args, a.node))
                  : a \in {CASE tt = "DOLLAR"  -> parseVariableReference(p1)
                             [] tt = "STRING"  -> parseStringLiteral(p1)
                             [] tt = "INTEGER" -> parseIntegerLiteral(p1)
                             [] tt \in {"FULLSTOP", "FSLASH", "TILDE"} -> parsePath(p1)
                             [] tt = "IDENT" ->
                                   IF peekToken(p1).Type \in {"FSLASH", "FULLSTOP"}
                                   THEN parsePathFromIdent(p1)
                                   ELSE PR(p1, Identifier(curToken(p1).Literal))}})

parseCommand(p, cmdTokenType) ==
    The({PR(a.p, [type |-> "Command", Type |-> tokenTypeToCommandType(cmdTokenType),
                  Name |-> curToken(p).Literal, Arguments |-> a.node])
         : a \in {parseCommandArguments(p, << >>)}})

\* the identifier as it would be if a name followed by . or / were not a path
parseIdentifierOrCommandNoPath(p) ==
    IF curToken(p).Literal \in DOMAIN TokenMap
    THEN parseCommand(p, TokenMap[curToken(p).Literal])
    ELSE PR(p, Identifier(curToken(p).Literal))

parseIdentifierOrCommand(p) ==
    IF curToken(p).Literal \in DOMAIN TokenMap
    THEN parseCommand(p, TokenMap[curToken(p).Literal])
    ELSE IF peekToken(p).Type \in {"FSLASH", "FULLSTOP"} THEN parsePathFromIdent(p)
    ELSE PR(p, Identifier(curToken(p).Literal))

parseTilde(p) ==
    IF peekToken(p).Type = "FSLASH" THEN parsePath(p)
    ELSE PR(p, [type |-> "Command", Type |-> "~", Name |-> curToken(p).Literal,
                Arguments |-> << >>])

\* whether New registered a prefix parse function for the token type
prefixParseFns(tt) ==
    tt \in {"IDENT", "INTEGER", "STRING", "DOLLAR", "FULLSTOP", "FSLASH", "TILDE"}

\* whether New registered an infix parse function for the token type
infixParseFns(tt) == tt \in {"PIPE", "GREATER", "INTO", "LESS", "OUT"}

noPrefixParseFnError(p, tt) ==
    [p EXCEPT !.errors = Append(@, <<"no prefix parse function for", tt>>)]

\* the redirection target as it would be if it were parsed as any expression
parseRedirectionTargetAsExpression(p) ==
    IF curToken(p).Type = "IDENT" THEN parseIdentifierOrCommand(p)
    ELSE IF curToken(p).Type \in {"FULLSTOP", "FSLASH"} THEN parsePath(p)
    ELSE IF curToken(p).Type = "TILDE" THEN parseTilde(p)
    ELSE IF curToken(p).Type = "STRING" THEN parseStringLiteral(p)
    ELSE IF curToken(p).Type = "DOLLAR" THEN parseVariableReference(p)
    ELSE IF curToken(p).Type = "INTEGER" THEN parseIntegerLiteral(p)
    ELSE PR(noPrefixParseFnError(p, curToken(p).Type), NilNode)

parseRedirectionTarget(p) ==
    CASE curToken(p).Type = "IDENT" ->
            IF peekToken(p).Type \in {"FSLASH", "FULLSTOP"} THEN parsePathFromIdent(p)
            ELSE PR(p, Identifier(curToken(p).Literal))
      [] curToken(p).Type \in {"FULLSTOP", "FSLASH", "TILDE"} -> parsePath(p)
      [] curToken(p).Type = "STRING" -> parseStringLiteral(p)
      [] curToken(p).Type = "DOLLAR" -> parseVariableReference(p)
      [] OTHER ->
            PR([p EXCEPT !.errors =
                   Append(@, <<"unexpected token in redirection target", curToken(p).Type>>)],
               NilNode)

parseRedirectionExpression(p, left) ==
    LET type == CASE curToken(p).Type = "GREATER" -> ">"
                  [] curToken(p).Type = "INTO"    -> ">>"
                  [] curToken(p).Type = "LESS"    -> "<"
                  [] curToken(p).Type = "OUT"     -> "<<"
    IN  The({PR(t.p, RedirectionExpression(type, left, t.node))
             : t \in {parseRedirectionTarget(nextToken(p))}})

RECURSIVE parseExpression(_, _)

parsePipeExpressionLoose(p, left) ==
    The({PR(r.p, PipeExpression(left, r.node))
         : r \in {parseExpression(nextToken(p), LOWEST)}})

parsePipeExpression(p, left) ==
    The({PR(r.p, PipeExpression(left, r.node))
         : r \in {parseExpression(nextToken(p), curPrecedence(p))}})

RECURSIVE parseInfix(_, _, _)
\* the loop of parseExpression: infix expressions are taken while the
\* precedence allows
parseInfix(p, precedence, leftExp) ==
    IF peekToken(p).Type # "EOF" /\ precedence < peekPrecedence(p)
    THEN IF ~infixParseFns(peekToken(p).Type) THEN PR(p, leftExp)
         ELSE The({parseInfix(x.p, precedence, x.node)
                   : x \in {IF peekToken(p).Type = "PIPE"
                            THEN parsePipeExpression(nextToken(p), leftExp)
                            ELSE parseRedirectionExpression(nextToken(p), leftExp)}})
    ELSE PR(p, leftExp)

parseExpression(p, precedence) ==
    IF ~prefixParseFns(curToken(p).Type)
    THEN PR(noPrefixParseFnError(p, curToken(p).Type), NilNode)
    ELSE \* leftExp := prefix()
         The({parseInfix(l.p, precedence, l.node)
              : l \in {CASE curToken(p).Type = "IDENT"   -> parseIdentifierOrCommand(p)
                         [] curToken(p).Type = "INTEGER" -> parseIntegerLiteral(p)
                         [] curToken(p).Type = "STRING"  -> parseStringLiteral(p)
                         [] curToken(p).Type = "DOLLAR"  -> parseVariableReference(p)
                         [] curToken(p).Type \in {"FULLSTOP", "FSLASH"} -> parsePath(p)
                         [] curToken(p).Type = "TILDE"   -> parseTilde(p)}})

parseExpressionStatement(p) ==
    The({PR(x.p, ExpressionStatement(x.node)) : x \in {parseExpression(p, LOWEST)}})

\* history: the parser is at the head of the loop of ParseProgram
AtLoopHead(p, stmts) ==
    [p EXCEPT !.steps = Append(@, [pos |-> p.pos, errors |-> p.errors,
                                   n |-> Len(stmts)])]

RECURSIVE ParseProgramStopsAtError(_, _)
\* the loop as it would be if it ended at the first parse error
ParseProgramStopsAtError(p, stmts) ==
    IF curToken(p).Type = "EOF" \/ p.errors # << >>
    THEN [Statements |-> stmts, errors |-> p.errors,
          steps |-> AtLoopHead(p, stmts).steps]
    ELSE The({ParseProgramStopsAtError(nextToken(s.p), Append(stmts, s.node))
              : s \in {parseExpressionStatement(AtLoopHead(p, stmts))}})

RECURSIVE ParseProgram(_, _)
\* the loop of ParseProgram with the statements collected so far; the result
\* holds the program's statements and the parser's errors
ParseProgram(p, stmts) ==
    IF curToken(p).Type = "EOF"
    THEN [Statements |-> stmts, errors |-> p.errors,
          steps |-> AtLoopHead(p, stmts).steps]
    ELSE The({ParseProgram(nextToken(s.p), Append(stmts, s.node))
              : s \in {parseExpressionStatement(AtLoopHead(p, stmts))}})

\* ------------------------------------------------------------------------
\* The parser on its own: the driver lexes and parses one script; every
\* token sequence of up to MaxTokens tokens over three commands, a plain
\* word, | and >
\* ------------------------------------------------------------------------
TokenKinds ==
    {Token("IDENT", <<"l", "s">>), Token("IDENT", <<"p", "r", "i", "n", "t">>),
     Token("IDENT", <<"o", "u", "t", "p", "u", "t">>), Token("IDENT", <<"f">>),
     Token("PIPE", <<"|">>), Token("GREATER", <<">">>)}

TokenSeqs == UNION {[1..n -> TokenKinds] : n \in 0..MaxTokens}

\* p := parser.New(l) ; program := p.ParseProgram()
Parse(toks) ==
    /\ \E r \in {ParseProgram(New(toks), << >>)} :
          trace' = <<[ev |-> "parse", tokens |-> toks, program |-> r.Statements,
                      errors |-> r.errors, steps |-> r.steps]>>
    /\ UNCHANGED <<cwd, env, vars, functions, stdout, stdin, files, home, handles,
                   bufs, console, lastErr, defVars, nEvals>>

\* runScript parses one script and ends
ParseNext == trace = << >> /\ \E toks \in TokenSeqs : Parse(toks)

ParseSpec == Init /\ [][ParseNext]_allVars

\* ------------------------------------------------------------------------
\* The lexer (package lexer): a Lexer is its input and the cursor pos, the
\* number of characters consumed
\* ------------------------------------------------------------------------
NewLexer(input) == [input |-> input, pos |-> 0]

peek(l) == IF l.pos >= Len(l.input) THEN NUL ELSE l.input[l.pos + 1]

\* the lexer after advance(); the call returns what peek(l) was
advance(l) == [l EXCEPT !.pos = @ + 1]

peekNext(l) == IF l.pos + 1 >= Len(l.input) THEN NUL ELSE l.input[l.pos + 2]

\* unicode.IsSpace and unicode.IsLetter on the characters of the inputs drawn
IsSpace(ch) == ch \in {" ", NL}

IsLetter(ch) == ch \in {"a", "b", "c", "f", "l", "s"}

isAlphanumeric(ch) == IsLetter(ch) \/ IsDigit(ch) \/ ch = "_"

\* for <peek is none of stops> { l.advance() }
RECURSIVE advanceUntil(_, _)
advanceUntil(l, stops) ==
    IF peek(l) \in stops THEN l ELSE advanceUntil(advance(l), stops)

\* for isAlphanumeric(l.peek()) { l.advance() }, and the same for IsDigit
RECURSIVE advanceWhile(_, _)
advanceWhile(l, digitsOnly) ==
    IF (IF digitsOnly THEN IsDigit(peek(l)) ELSE isAlphanumeric(peek(l)))
    THEN advanceWhile(advance(l), digitsOnly) ELSE l

\* what a NextToken call gives: the token, and the lexer it leaves
LexR(l, tok) == [l |-> l, tok |-> tok]

\* the cases of the switch that take one character whatever follows it
SingleCharTokens ==
    "." :> "FULLSTOP" @@ "~" :> "TILDE" @@ "$" :> "DOLLAR" @@ "/" :> "FSLASH"
    @@ "{" :> "LBRACE" @@ "}" :> "RBRACE" @@ "(" :> "LPAREN" @@ ")" :> "RPAREN"
    @@ "[" :> "LBRACKET" @@ "]" :> "RBRACKET" @@ "," :> "COMMA" @@ ":" :> "COLON"
    @@ "+" :> "PLUS" @@ "-" :> "MINUS" @@ "*" :> "ASTERISK" @@ "%" :> "PERCENT"

\* the cases that look at the next character: the token of the character on
\* its own, and the tokens it makes with a second character
DoubleCharTokens ==
    "|" :> [one |-> "PIPE", two |-> ("|" :> "OR")]
    @@ "&" :> [one |-> "ILLEGAL", two |-> ("&" :> "AND")]
    @@ "=" :> [one |-> "ASSIGN", two |-> ("=" :> "EQ" @@ "~" :> "REGEX_MATCH")]
    @@ "!" :> [one |-> "NOT", two |-> ("=" :> "NOT_EQ")]
    @@ ">" :> [one |-> "GT", two |-> (">" :> "INTO" @@ "=" :> "GTE")]
    @@ "<" :> [one |-> "LT", two |-> ("<" :> "OUT" @@ "=" :> "LTE")]

\* the string cases as they would be if an unterminated string put the
\* cursor back on its opening quote
readStringRewinds(l, quote) ==
    LET l1      == advance(l)
        l2      == advanceUntil(l1, {quote, NUL})
        literal == SubSeq(l.input, l1.pos + 1, l2.pos)
    IN  IF peek(l2) = quote THEN LexR(advance(l2), Token("STRING", literal))
        ELSE LexR(l, Token("ILLEGAL", literal))

\* case '"' and case '\'': the characters up to the closing quote, or up to
\* the end when there is none
readString(l, quote) ==
    LET l1      == advance(l)
        l2      == advanceUntil(l1, {quote, NUL})
        literal == SubSeq(l.input, l1.pos + 1, l2.pos)
    IN  IF peek(l2) = quote THEN LexR(advance(l2), Token("STRING", literal))
        ELSE LexR(l2, Token("ILLEGAL", literal))

RECURSIVE NextToken(_)
NextToken(l) ==
    LET ch == peek(l) IN
    IF IsSpace(ch) THEN NextToken(advance(l))
    ELSE IF ch = "#" THEN NextToken(advanceUntil(l, {NL, NUL}))
    ELSE IF ch \in DOMAIN DoubleCharTokens
    THEN IF peekNext(l) \in DOMAIN DoubleCharTokens[ch].two
         THEN LexR(advance(advance(l)),
                   Token(DoubleCharTokens[ch].two[peekNext(l)],
                         SubSeq(l.input, l.pos + 1, l.pos + 2)))
         ELSE LexR(advance(l), Token(DoubleCharTokens[ch].one, <<ch>>))
    ELSE IF ch \in DOMAIN SingleCharTokens
    THEN LexR(advance(l), Token(SingleCharTokens[ch], <<ch>>))
    ELSE IF ch \in {"\"", "'"} THEN readString(l, ch)
    ELSE IF ch = NUL THEN LexR(l, Token("EOF", << >>))
    ELSE IF IsDigit(ch)
    THEN LexR(advanceWhile(l, TRUE),
              Token("INTEGER", SubSeq(l.input, l.pos + 1, advanceWhile(l, TRUE).pos)))
    ELSE IF IsLetter(ch) \/ ch = "_"
    THEN LET l2      == advanceWhile(l, FALSE)
             literal == SubSeq(l.input, l.pos + 1, l2.pos)
         IN  IF literal \in DOMAIN TokenMap THEN LexR(l2, Token(TokenMap[literal], literal))
             ELSE LexR(l2, Token("IDENT", literal))
    ELSE LexR(advance(l), Token("ILLEGAL", <<ch>>))

\* the characters of the inputs: letters that spell a keyword, a digit, white
\* space, the start of a comment, a quote, characters of operators of one and
\* two characters, the zero byte, and a character no case takes
LexChars == {"l", "s", "1", " ", NL, "#", "\"", ">", "=", NUL, "@"}

\* l := lexer.NewLexer(input)
Lex(input) ==
    /\ trace' = <<[ev |-> "lexer", l |-> NewLexer(input)]>>
    /\ UNCHANGED <<cwd, env, vars, functions, stdout, stdin, files, home, handles,
                   bufs, console, lastErr, defVars, nEvals>>

\* tok := l.NextToken(), called at most two times more than the input has
\* characters
CallNextToken ==
    /\ trace # << >> /\ trace[1].ev = "lexer"
    /\ Len(trace) < Len(trace[1].l.input) + 3
    /\ \E r \in {NextToken(trace[Len(trace)].l)} :
          trace' = Append(trace, [ev |-> "token", l |-> r.l, tok |-> r.tok])
    /\ UNCHANGED <<cwd, env, vars, functions, stdout, stdin, files, home, handles,
                   bufs, console, lastErr, defVars, nEvals>>

LexNext ==
    \/ /\ trace = << >>
       /\ \E input \in UNION {[1..n -> LexChars] : n \in 0..MaxInput} : Lex(input)
    \/ CallNextToken

LexSpec == Init /\ [][LexNext]_allVars

\* ------------------------------------------------------------------------
\* Lines of words through the lexer the parser above reads from
\* (lexer/lexer.go: every word is IDENT, the parser looks keywords up)
\* ------------------------------------------------------------------------
RECURSIVE lexerNextToken(_)
lexerNextToken(l) ==
    LET ch == peek(l) IN
    IF IsSpace(ch) THEN lexerNextToken(advance(l))
    ELSE CASE ch = "|" -> LexR(advance(l), Token("PIPE", <<ch>>))
           [] ch = "." -> LexR(advance(l), Token("FULLSTOP", <<ch>>))
           [] ch = "$" -> LexR(advance(l), Token("DOLLAR", <<ch>>))
           [] ch = "/" -> LexR(advance(l), Token("FSLASH", <<ch>>))
           [] ch = ">" -> IF peekNext(l) = ">"
                          THEN LexR(advance(advance(l)), Token("INTO", <<">", ">">>))
                          ELSE LexR(advance(l), Token("GREATER", <<ch>>))
           [] ch = "<" -> IF peekNext(l) = "<"
                          THEN LexR(advance(advance(l)), Token("OUT", <<"<", "<">>))
                          ELSE LexR(advance(l), Token("LESS", <<ch>>))
           [] ch \in {"\"", "'"} -> readString(l, ch)
           [] ch = NUL -> LexR(l, Token("EOF", << >>))
           [] OTHER ->
                IF IsDigit(ch)
                THEN LexR(advanceWhile(l, TRUE),
                          Token("INTEGER", SubSeq(l.input, l.pos + 1, advanceWhile(l, TRUE).pos)))
                ELSE IF IsLetter(ch)
                THEN LexR(advanceWhile(l, FALSE),
                          Token("IDENT", SubSeq(l.input, l.pos + 1, advanceWhile(l, FALSE).pos)))
                ELSE LexR(advance(l), Token("ILLEGAL", <<ch>>))

RECURSIVE Tokens(_)
\* the tokens the parser draws from the lexer before EOF
Tokens(l) ==
    The({IF r.tok.Type = "EOF" THEN << >> ELSE <<r.tok>> \o Tokens(r.l)
         : r \in {lexerNextToken(l)}})

\* the words of the lines: a command keyword, names, names with extensions,
\* paths, a path that begins with a keyword, operators, $ with and without a
\* name, a string and a number
WordSet ==
    {<<"l", "s">>, <<"f">>, <<"a", ".", "b">>, <<"a", "/", "b">>,
     <<"a", ".", "b", ".", "c">>, <<".", "/", "a">>, <<"l", "s", "/", "f">>,
     <<">">>, <<"|">>, <<"$">>, <<"$", "f">>, <<"\"", "f", "\"">>, <<"1">>}

\* l := lexer.NewLexer(input) ; p := parser.New(l) ; program := p.ParseProgram()
\* for the input that has the words with one blank between them
ParseLine(words) ==
    /\ \E toks \in {Tokens(NewLexer(Join(words, <<" ">>)))} :
          \E r \in {ParseProgram(New(toks), << >>)} :
             trace' = <<[ev |-> "parse", words |-> words, tokens |-> toks,
                         program |-> r.Statements, errors |-> r.errors,
                         steps |-> r.steps]>>
    /\ UNCHANGED <<cwd, env, vars, functions, stdout, stdin, files, home, handles,
                   bufs, console, lastErr, defVars, nEvals>>

RECURSIVE PathValues(_)
\* the texts of the path expressions of a node
PathValues(node) ==
    CASE node.type = "PathExpression" -> {node.Value}
      [] node.type = "Command" ->
            UNION {PathValues(node.Arguments[i]) : i \in 1..Len(node.Arguments)}
      [] node.type = "PipeExpression" -> PathValues(node.Left) \cup PathValues(node.Right)
      [] node.type = "RedirectionExpression" ->
            PathValues(node.Command) \cup PathValues(node.Target)
      [] node.type = "ExpressionStatement" -> PathValues(node.Expression)
      [] OTHER -> {}

\* the text of a path expression of the program is lexed and parsed again
Reparse ==
    /\ Len(trace) = 1 /\ trace[1].ev = "parse"
    /\ \E i \in 1..Len(trace[1].program) :
          \E v \in PathValues(trace[1].program[i]) :
             \E r \in {ParseProgram(New(Tokens(NewLexer(v))), << >>)} :
                trace' = Append(trace, [ev |-> "reparse", Value |-> v,
                                        program |-> r.Statements, errors |-> r.errors])
    /\ UNCHANGED <<cwd, env, vars, functions, stdout, stdin, files, home, handles,
                   bufs, console, lastErr, defVars, nEvals>>

LineNext ==
    \/ /\ trace = << >>
       /\ \E words \in UNION {[1..n -> WordSet] : n \in 0..MaxWords} : ParseLine(words)
    \/ Reparse

LineSpec == Init /\ [][LineNext]_allVars

\* ------------------------------------------------------------------------
\* Properties.  They read the history of the last Eval call (trace) and the
\* evaluator it left behind.
\* ------------------------------------------------------------------------
Idx == 1..Len(trace)

\* the first event after i whose kind is in kinds (0: there is none)
FirstAfter(i, kinds) ==
    LET c == {j \in (i + 1)..Len(trace) : trace[j].ev \in kinds}
    IN  IF c = {} THEN 0 ELSE CHOOSE j \in c : \A m \in c : j <= m

\* the first event of the given kind after i that carries the same key
\* (buffer of a pipe, number of a call or of a loop) as event i
Partner(i, kind, key) ==
    LET c == {j \in (i + 1)..Len(trace) : trace[j].ev = kind /\ trace[j][key] = trace[i][key]}
    IN  IF c = {} THEN 0 ELSE CHOOSE j \in c : \A m \in c : j <= m

RECURSIVE WrittenBetween(_, _, _)
\* what events lo..hi wrote to stream w, in order
WrittenBetween(w, lo, hi) ==
    IF lo > hi THEN << >>
    ELSE (IF trace[lo].ev = "write" /\ trace[lo].to = w THEN trace[lo].data ELSE << >>)
            \o WrittenBetween(w, lo + 1, hi)

IsSignal(err) == err.k \in {"break", "continue", "return"}

\* C1: every pipe and every redirection expression, nested or not, failed or
\* not, leaves the active output and input stream as it found them; between
\* Eval calls the active streams are the process's own.
StreamsRestored ==
    /\ \A i \in Idx : trace[i].ev = "io_ret" =>
          /\ trace[i].stdoutAfter = trace[i].stdoutBefore
          /\ trace[i].stdinAfter = trace[i].stdinBefore
    /\ stdout = OsStdout
    /\ stdin = OsStdin

\* C1 witness: a pipe nested in a redirection has returned an error
NestedIOErrorSeen ==
    \E i \in Idx : /\ trace[i].ev = "io_ret"
                   /\ trace[i].type = "PipeExpression"
                   /\ trace[i].err # NoErr
                   /\ trace[i].stdoutBefore.kind = "file"

\* C2: in a | b, while a runs nothing is written to the enclosing output
\* stream; b starts only after a has returned, with an input stream holding
\* exactly what a wrote to its output stream, and a writes nothing afterwards;
\* what b returns is what the pipe returns.  If a fails, b is not started.
PipeHandsLeftOutputToRight ==
    \A i \in Idx : trace[i].ev = "pipe_left" =>
        LET m == Partner(i, "pipe_mid", "buf") IN
        /\ m # 0
        /\ \A j \in (i + 1)..(m - 1) :
              trace[j].ev = "write" => trace[j].to # trace[i].outer
        /\ \A j \in (m + 1)..Len(trace) :
              trace[j].ev = "write" => trace[j].to # trace[i].stdout
        /\ IF trace[m].err = NoErr
           THEN /\ trace[m + 1].ev = "pipe_right"
                /\ trace[m + 1].buf = trace[i].buf
                /\ trace[m + 1].stdin = trace[i].stdout
                /\ trace[m + 1].data = WrittenBetween(trace[i].stdout, i, m)
                /\ LET d == Partner(i, "pipe_done", "buf") IN
                    /\ d > m + 1
                    /\ trace[d + 1].ev = "io_ret"
                    /\ trace[d + 1].val = trace[d].rval
                    /\ trace[d + 1].err = trace[d].rerr
           ELSE /\ Partner(i, "pipe_right", "buf") = 0
                /\ trace[m + 1].ev = "io_ret"
                /\ trace[m + 1].err = trace[m].err

\* C2 witness: the right side was started with the non-empty output of the
\* left side and the whole Eval wrote nothing to the process's output
PipeCapturedSeen ==
    /\ \E i \in Idx : trace[i].ev = "pipe_right" /\ trace[i].data # << >>
    /\ \A i \in Idx : trace[i].ev = "write" => trace[i].to # OsStdout
    /\ lastErr = NoErr

\* C3: Eval runs the statements in order, one after the other, and stops at
\* the first error: that error is its result, nothing runs after it, and the
\* bindings, functions and cwd stay as they were when the error was returned.
EvalStopsAtFirstError ==
    LET tops  == {i \in Idx : trace[i].ev = "top"}
        dones == {i \in Idx : trace[i].ev = "top_done"}
    IN  /\ \A i \in tops : trace[i].idx = Cardinality({j \in tops : j <= i})
        /\ \A j \in dones :
              IF trace[j].err # NoErr
              THEN /\ j = Len(trace)
                   /\ lastErr = trace[j].err
                   /\ vars = trace[j].vars
                   /\ functions = trace[j].functions
                   /\ cwd = trace[j].cwd
              ELSE trace[j].idx < trace[1].n => trace[j + 1].ev = "top"
        /\ (trace # << >> /\ lastErr = NoErr) => Cardinality(tops) = trace[1].n
        \* a failing statement that itself assigns nothing, defines nothing and
        \* changes no directory leaves what the statements before it had made
        /\ \A j \in dones :
              LET p == CHOOSE q \in tops : q < j /\ \A q2 \in tops : q2 < j => q2 <= q IN
              (/\ trace[j].err # NoErr
               /\ \A m \in p..j :
                     /\ trace[m].ev = "stmt" =>
                            trace[m].type \notin {"AssignmentStatement", "ForStatement",
                                                  "FunctionStatement"}
                     /\ trace[m].ev = "exec" => trace[m].Type # "cd")
              => /\ vars = trace[p - 1].vars
                 /\ functions = trace[p - 1].functions
                 /\ cwd = trace[p - 1].cwd
        \* the iterations before the failing one keep their effects
        /\ (trace # << >> /\ trace[1].prog = "for_err") =>
              /\ lastErr.k = "error"
              /\ Has(vars, <<"y">>) /\ vars[<<"y">>] = IntV(9)
              /\ Has(vars, <<"i">>) /\ vars[<<"i">>] = IntV(2)

\* C3 witness: an error before the last statement, after the bindings and
\* the cwd were changed
ErrorAfterChangesSeen ==
    /\ trace # << >>
    /\ lastErr # NoErr
    /\ trace[Len(trace)].ev = "top_done"
    /\ trace[Len(trace)].idx < trace[1].n
    /\ trace[Len(trace) - 1].ev = "exec"
    /\ vars # trace[1].vars
    /\ cwd # trace[1].cwd

\* C4: when the body of a for loop returns break the loop ends at once
\* without error; when it returns continue or nothing the loop goes on with
\* the next item (ends, if there is none); any other error ends the loop and
\* is its result.  A break or continue statement is followed by no statement
\* of the same iteration: the next thing that happens is its loop taking the
\* signal.  The loop of the language reference prints 0 to 4.
ForLoopControl ==
    /\ \A i \in Idx : trace[i].ev = "for_body" =>
          LET r == trace[i].err
              nx == trace[i + 1]
          IN  IF r = errBreak
              THEN nx.ev = "for_done" /\ nx.act = trace[i].act /\ nx.err = NoErr
              ELSE IF r = errContinue \/ r = NoErr
              THEN IF trace[i].idx < trace[i].n
                   THEN nx.ev = "for_iter" /\ nx.act = trace[i].act
                        /\ nx.idx = trace[i].idx + 1
                   ELSE nx.ev = "for_done" /\ nx.act = trace[i].act /\ nx.err = NoErr
              ELSE nx.ev = "for_done" /\ nx.act = trace[i].act /\ nx.err = r
    /\ \A i \in Idx : trace[i].ev = "for_done" =>
          \A j \in (i + 1)..Len(trace) :
              trace[j].ev = "for_iter" => trace[j].act # trace[i].act
    /\ \A i \in Idx :
          (trace[i].ev = "stmt" /\ trace[i].type \in {"BreakStatement", "ContinueStatement"}) =>
              /\ trace[i + 1].ev \in {"for_body", "body_exit", "top_done"}
              /\ trace[i + 1].err = IF trace[i].type = "BreakStatement"
                                    THEN errBreak ELSE errContinue
    /\ (trace # << >> /\ trace[1].prog = "for_break") =>
          /\ lastErr = NoErr
          /\ console = <<"0", NL, "1", NL, "2", NL, "3", NL, "4", NL>>

\* C4 witness: a break taken from inside an if with items left, in the loop
\* of the language reference
BreakBeforeLastItemSeen ==
    /\ trace # << >>
    /\ trace[1].prog = "for_break"
    /\ \E i \in Idx : /\ trace[i].ev = "for_body"
                      /\ trace[i].err = errBreak
                      /\ trace[i].idx < trace[i].n

\* C5: once a return statement has produced v, nothing more of the body runs:
\* enclosing loops hand the signal on until the call takes it, and the call
\* yields v without error; a body that ends without return makes the call
\* yield nil.  add(3, 4) is the integer 7.
ReturnYieldsValue ==
    /\ \A i \in Idx : trace[i].ev = "return" =>
          LET j == FirstAfter(i, {"body_exit", "top_done"}) IN
          /\ j # 0
          /\ \A m \in (i + 1)..(j - 1) : trace[m].ev \in {"for_body", "for_done"}
          /\ trace[j].err = returnValue(trace[i].val)
          /\ trace[j].ev = "body_exit" =>
                /\ trace[j + 1].ev = "call_ret"
                /\ trace[j + 1].act = trace[j].act
                /\ trace[j + 1].val = trace[i].val
                /\ trace[j + 1].err = NoErr
    /\ \A j \in Idx : (trace[j].ev = "body_exit" /\ trace[j].err = NoErr) =>
          /\ trace[j + 1].ev = "call_ret"
          /\ trace[j + 1].val = NilV
          /\ trace[j + 1].err = NoErr
    /\ (trace # << >> /\ trace[1].prog = "add") =>
          /\ lastErr = NoErr
          /\ Has(vars, <<"r">>) /\ vars[<<"r">>] = IntV(7)

\* C5 witness: a return from inside a switch inside a for loop of the body
\* became the value of the call
NestedReturnSeen ==
    \E i \in Idx : /\ trace[i].ev = "return"
                   /\ trace[i + 1].ev = "for_body"
                   /\ \E j \in Idx : /\ j > i
                                     /\ trace[j].ev = "call_ret"
                                     /\ trace[j].val = trace[i].val
                                     /\ trace[j].val = IntV(42)

\* C6: a break, continue or return that comes out of a top-level statement
\* is the non-nil error Eval returns, and no further statement is executed.
UncaughtSignalIsError ==
    \A j \in Idx : (trace[j].ev = "top_done" /\ IsSignal(trace[j].err)) =>
        /\ lastErr # NoErr
        /\ lastErr.k = trace[j].err.k
        /\ \A m \in (j + 1)..Len(trace) : trace[m].ev \notin {"top", "stmt", "expr", "exec"}

\* C6 witness: a return left a top-level for loop with statements remaining
TopLevelSignalSeen ==
    \E j \in Idx : /\ trace[j].ev = "top_done"
                   /\ trace[j].err.k = "return"
                   /\ trace[j - 1].ev = "for_done"
                   /\ trace[j].idx < trace[1].n

\* C7: the body of a call of f starts with exactly the bindings in force at
\* the latest definition of f, overlaid with the parameters.
CallStartsFromDefinitionBindings ==
    \A i \in Idx : trace[i].ev = "call" =>
        LET j == Partner(i, "body_enter", "act")
            params == {trace[i].params[p] : p \in 1..Len(trace[i].params)}
        IN  j # 0 =>
              /\ DOMAIN trace[j].vars = (DOMAIN trace[i].snap) \cup params
              /\ \A name \in (DOMAIN trace[i].snap) \ params :
                    trace[j].vars[name] = trace[i].snap[name]

\* C7 witness: f was called twice after an outer variable that its body
\* reads and assigns had been reassigned
StaleOuterVariableSeen ==
    \E i, i2 \in Idx :
        /\ i < i2
        /\ trace[i].ev = "call" /\ trace[i2].ev = "call"
        /\ trace[i].name = trace[i2].name
        /\ Partner(i, "body_enter", "act") # 0
        /\ Partner(i2, "body_enter", "act") # 0
        /\ <<"x">> \in DOMAIN trace[i].snap
        /\ <<"x">> \in DOMAIN trace[i].varsBefore
        /\ trace[i].snap[<<"x">>] # trace[i].varsBefore[<<"x">>]

\* C8: whatever the outcome of a user-function call, the bindings after the
\* call are the bindings before it.
CallerBindingsRestored ==
    \A i \in Idx : trace[i].ev = "call" =>
        LET j == Partner(i, "call_ret", "act") IN
        /\ j # 0
        /\ trace[j].varsAfter = trace[i].varsBefore

\* C8 witness: a call whose body assigned a variable and then failed
FailedBodySeen ==
    \E i \in Idx :
        /\ trace[i].ev = "body_enter"
        /\ LET j == Partner(i, "body_exit", "act") IN
            /\ j # 0
            /\ trace[j].err.k = "error"
            /\ \E m \in (i + 1)..(j - 1) :
                  trace[m].ev = "stmt" /\ trace[m].type = "AssignmentStatement"

\* what an argument expression is worth under the caller's bindings cv
\* (literals, identifiers, sums and differences of those)
RECURSIVE ArgInCaller(_, _)
ArgInCaller(arg, cv) ==
    CASE arg.type = "IntegerLiteral" -> IntV(arg.Value)
      [] arg.type = "Identifier" ->
            IF arg.Value \in DOMAIN cv THEN cv[arg.Value] ELSE StrV(arg.Value)
      [] arg.type = "InfixExpression" ->
            LET l == ArgInCaller(arg.Left, cv)
                r == ArgInCaller(arg.Right, cv)
            IN  IF l.t = "int" /\ r.t = "int" /\ arg.Operator \in {"+", "-"}
                THEN IntV(IF arg.Operator = "+" THEN l.i + r.i ELSE l.i - r.i)
                ELSE NilV
      [] OTHER -> NilV

\* C9: each parameter is bound to its argument evaluated under the caller's
\* bindings (checked for arguments built from literals, identifiers, + and -).
ArgumentsUseCallerBindings ==
    \A i \in Idx : trace[i].ev = "call" =>
        LET j == Partner(i, "body_enter", "act") IN
        j # 0 =>
            \A p \in 1..Len(trace[i].params) :
                LET want == ArgInCaller(trace[i].args[p], trace[i].varsBefore) IN
                (want # NilV /\ \A q \in (p + 1)..Len(trace[i].params) :
                                    trace[i].params[q] # trace[i].params[p])
                    => trace[j].vars[trace[i].params[p]] = want

\* C9 witness: f(1, a) with parameters (a, b) where the caller's a differs
\* both from the a of the definition and from the first argument
ShadowedArgumentSeen ==
    \E i \in Idx :
        /\ trace[i].ev = "call"
        /\ trace[i].params = <<<<"a">>, <<"b">>>>
        /\ Len(trace[i].args) = 2
        /\ trace[i].args[1].type = "IntegerLiteral" /\ trace[i].args[1].Value = 1
        /\ trace[i].args[2].type = "Identifier" /\ trace[i].args[2].Value = <<"a">>
        /\ <<"a">> \in DOMAIN trace[i].snap /\ <<"a">> \in DOMAIN trace[i].varsBefore
        /\ trace[i].varsBefore[<<"a">>] \notin {IntV(1), trace[i].snap[<<"a">>]}
        /\ LET j == Partner(i, "body_enter", "act") IN
            j # 0 /\ trace[j].vars[<<"b">>] = trace[i].varsBefore[<<"a">>]

\* C10: a call with a wrong number of arguments returns an error at once:
\* no expression is evaluated and no statement executed in between, and the
\* bindings are untouched.
WrongArgumentCountIsError ==
    \A i \in Idx :
        (trace[i].ev = "call" /\ Len(trace[i].args) # Len(trace[i].params)) =>
            /\ trace[i + 1].ev = "call_ret"
            /\ trace[i + 1].act = trace[i].act
            /\ trace[i + 1].err.k = "error"
            /\ trace[i + 1].varsAfter = trace[i].varsBefore

\* C10 witness: a call with one argument too many, the extra one a call
ExtraArgumentSeen ==
    \E i \in Idx :
        /\ trace[i].ev = "call"
        /\ Len(trace[i].args) = Len(trace[i].params) + 1
        /\ trace[i].args[Len(trace[i].args)].type = "CallExpression"
        /\ lastErr.k = "error"

\* C11: when the left side of && is falsy, or the left side of || is truthy,
\* nothing at all happens between the end of the left side and the end of the
\* operator (no expression is evaluated, no command runs, nothing is written),
\* and the operator yields the boolean false, respectively true, without an
\* error; whenever a logical operator yields a value, it is a boolean
ShortCircuit ==
    /\ \A j \in Idx :
          trace[j].ev = "logic" =>
            /\ (\/ trace[j].op = "&&" /\ ~valueToBool(trace[j].left)
                \/ trace[j].op = "||" /\ valueToBool(trace[j].left))
               => /\ trace[j].from = j - 1
                  /\ trace[j].err = NoErr
                  /\ trace[j].val = BoolV(trace[j].op = "||")
            /\ trace[j].err = NoErr => trace[j].val.t = "bool"
    /\ (trace # << >> /\ trace[1].prog = "logic_skip")
       => /\ lastErr = NoErr
          /\ console = << >>
          /\ cwd = trace[1].cwd
          /\ Has(vars, <<"r">>) /\ vars[<<"r">>] = BoolV(FALSE)
          /\ Has(vars, <<"x">>) /\ vars[<<"x">>] = BoolV(TRUE)
          /\ Has(vars, <<"y">>) /\ vars[<<"y">>] = BoolV(FALSE)

\* a falsy left side of && and a truthy left side of || whose right side is a
\* call of a defined function that prints and changes directory
ShortCircuitSeen ==
    /\ Has(functions, <<"h">>)
    /\ \E j \in Idx : /\ trace[j].ev = "logic" /\ trace[j].op = "&&"
                       /\ ~valueToBool(trace[j].left)
                       /\ trace[j].rtype = "CallExpression"
    /\ \E j \in Idx : /\ trace[j].ev = "logic" /\ trace[j].op = "||"
                       /\ valueToBool(trace[j].left)
                       /\ trace[j].rtype = "CallExpression"

\* what the == operator makes of two values
EqualsOp(a, b) ==
    evalInfixExpression([vars |-> MapPut(MapPut(EmptyMap, <<"a">>, a), <<"b">>, b),
                         log |-> << >>, nact |-> 0],
                        InfixExpression(Identifier(<<"a">>), "==", Identifier(<<"b">>))).val
        = BoolV(TRUE)

\* the case value before value vi of clause ci in declaration order
PrevCase(shape, ci, vi) ==
    IF vi > 1 THEN <<ci, vi - 1>> ELSE <<ci - 1, shape[ci - 1]>>

\* C12: in every execution of a switch the case values are compared in
\* declaration order with none left out, a value counts as matching exactly
\* when the == operator calls it equal to the subject, no value is evaluated
\* after the first match, the body that runs is the one of the clause of the
\* first match, the default block runs only after every value failed to
\* match, and at most one block runs
SwitchFirstMatch ==
    /\ \A j \in Idx :
          trace[j].ev = "case" =>
            /\ trace[j].eq = EqualsOp(trace[j].subject, trace[j].val)
            \* the value before it in declaration order was compared and did not match
            /\ <<trace[j].ci, trace[j].vi>> # <<1, 1>> =>
                  \E i \in 1..(j - 1) :
                      /\ trace[i].ev = "case" /\ trace[i].act = trace[j].act
                      /\ <<trace[i].ci, trace[i].vi>>
                            = PrevCase(trace[j].shape, trace[j].ci, trace[j].vi)
            \* every earlier comparison of this switch failed
            /\ \A i \in 1..(j - 1) :
                  (trace[i].ev = "case" /\ trace[i].act = trace[j].act)
                     => /\ ~trace[i].eq
                        /\ <<trace[i].ci, trace[i].vi>> # <<trace[j].ci, trace[j].vi>>
            \* a match runs the body of its clause at once, a failed last value
            \* the default block or nothing
            /\ trace[j].eq =>
                  /\ j < Len(trace)
                  /\ trace[j + 1].ev = "switch_body" /\ trace[j + 1].act = trace[j].act
                  /\ trace[j + 1].which = trace[j].ci
            /\ (~trace[j].eq /\ trace[j].ci = Len(trace[j].shape)
                             /\ trace[j].vi = trace[j].shape[trace[j].ci]) =>
                  /\ j < Len(trace)
                  /\ trace[j + 1].act = trace[j].act
                  /\ \/ trace[j + 1].ev = "switch_body" /\ trace[j + 1].which = 0
                     \/ trace[j + 1].ev = "switch_none"
    /\ \A b \in Idx :
          trace[b].ev = "switch_body" =>
            \* at most one block per execution
            /\ \A c \in Idx : (trace[c].ev = "switch_body" /\ trace[c].act = trace[b].act)
                                 => c = b
            /\ trace[b].which > 0 =>
                  /\ b > 1
                  /\ trace[b - 1].ev = "case" /\ trace[b - 1].act = trace[b].act
                  /\ trace[b - 1].eq /\ trace[b - 1].ci = trace[b].which
            /\ trace[b].which = 0 =>
                  \A i \in 1..(b - 1) :
                      (trace[i].ev = "case" /\ trace[i].act = trace[b].act)
                         => /\ ~trace[i].eq
                            /\ \E k \in i..(b - 1) :
                                  /\ trace[k].ev = "case" /\ trace[k].act = trace[b].act
                                  /\ trace[k].ci = Len(trace[k].shape)
                                  /\ trace[k].vi = trace[k].shape[trace[k].ci]
    /\ \A n \in Idx :
          trace[n].ev = "switch_none" =>
            \A c \in Idx : ~(trace[c].ev = "switch_body" /\ trace[c].act = trace[n].act)
    \* switch x { case 0, 1 ... case "1", 2 ... default } takes the first clause
    \* when x equals 0 or 1 (although "1" would match too), the second when x
    \* equals 2, and the default block otherwise
    /\ (trace # << >> /\ trace[1].prog = "switch" /\ lastErr = NoErr) =>
          /\ Has(vars, <<"y">>)
          /\ vars[<<"y">>] = (LET x == IF Has(trace[1].vars, <<"x">>) THEN trace[1].vars[<<"x">>]
                                    ELSE StrV(<<"x">>)
                         IN  IF EqualsOp(x, IntV(0)) \/ EqualsOp(x, IntV(1)) THEN IntV(1)
                             ELSE IF EqualsOp(x, StrV(<<"1">>)) \/ EqualsOp(x, IntV(2))
                             THEN IntV(2)
                             ELSE IntV(3))
    /\ (trace # << >> /\ trace[1].prog = "switch_call" /\ lastErr = NoErr) =>
          /\ Has(vars, <<"y">>) /\ vars[<<"y">>] = IntV(2)

\* a switch whose first two values (one of them a call) fail to match, whose
\* third matches, and whose last clause holds the same value again
SwitchSecondClauseSeen ==
    \E j \in Idx :
        /\ trace[j].ev = "case" /\ trace[j].eq
        /\ trace[j].ci = 2 /\ trace[j].vi = 2 /\ Len(trace[j].shape) = 3
        /\ \E i \in 1..(j - 1) : trace[i].ev = "call_ret"
        /\ lastErr = NoErr

\* C13 as stated: evaluating an identifier that has no binding yields an
\* error, and that error ends Eval
UndefinedVariableIsError ==
    \A j \in Idx :
        (trace[j].ev = "ident" /\ ~trace[j].bound)
           => trace[j].err # NoErr /\ lastErr # NoErr

\* C13 as amended: evaluating an identifier that has no binding yields the
\* identifier's own name as a string and no error, an identifier that has one
\* yields the value bound to it, and the statements after it run:
\* y = q ; x = 1 ends without an error with y = "q" and x = 1
UndefinedVariableIsItsName ==
    /\ \A j \in Idx :
          trace[j].ev = "ident" =>
            /\ trace[j].err = NoErr
            /\ ~trace[j].bound => trace[j].val = StrV(trace[j].name)
    /\ (trace # << >> /\ trace[1].prog = "unbound") =>
          /\ lastErr = NoErr
          /\ trace[Len(trace)].ev = "top_done" /\ trace[Len(trace)].idx = 2
          /\ Has(vars, <<"y">>) /\ vars[<<"y">>] = StrV(<<"q">>)
          /\ Has(vars, <<"x">>) /\ vars[<<"x">>] = IntV(1)

\* an identifier without a binding has been evaluated as the value of an
\* assignment and Eval has ended
UnboundIdentifierSeen ==
    /\ trace # << >> /\ trace[1].prog = "unbound"
    /\ \E j \in Idx : /\ trace[j].ev = "ident" /\ ~trace[j].bound
                       /\ trace[j].name = <<"q">>
    /\ ~Has(vars, <<"q">>)

\* C14: indexing an array with an integer i yields the element at position i
\* (counted from 0) and no error when 0 <= i < length, and an ordinary error
\* (no value, no panic) otherwise; arr[10] on a 3-element array ends Eval with
\* an ordinary error at that statement
IndexWithinBounds ==
    /\ \A j \in Idx :
          trace[j].ev = "index" =>
            IF 0 <= trace[j].idx /\ trace[j].idx < Len(trace[j].arr)
            THEN /\ trace[j].err = NoErr
                 /\ trace[j].val = trace[j].arr[trace[j].idx + 1]
            ELSE /\ trace[j].err.k = "error"
                 /\ trace[j].val = NilV
                 /\ lastErr = trace[j].err
    /\ (trace # << >> /\ trace[1].prog \in {"index_far", "index_neg", "index_empty"}) =>
          /\ lastErr.k = "error"
          /\ trace[Len(trace)].ev = "top_done" /\ trace[Len(trace)].idx = 2
    /\ (trace # << >> /\ trace[1].prog = "index" /\ Has(trace[1].vars, <<"x">>)
          /\ trace[1].vars[<<"x">>] \in {IntV(1), IntV(2)}) =>
          /\ lastErr = NoErr
          /\ Has(vars, <<"y">>) /\ vars[<<"y">>] = IntV(30)
          /\ Has(vars, <<"r">>)
          /\ vars[<<"r">>] = IF trace[1].vars[<<"x">>] = IntV(1) THEN IntV(20) ELSE IntV(30)

\* a 3-element array has been indexed at its last position and then at the
\* position equal to its length
IndexAtLengthSeen ==
    /\ \E j \in Idx : /\ trace[j].ev = "index" /\ Len(trace[j].arr) = 3
                       /\ trace[j].idx = 2
    /\ \E j \in Idx : /\ trace[j].ev = "index" /\ Len(trace[j].arr) = 3
                       /\ trace[j].idx = 3

\* C15: range(n) with n >= 0 yields, without an error, an array of n integers
\* that starts at 0 and goes up by one from each element to the next;
\* range(0) is the empty array, over which a loop runs no iteration, and
\* range(3) prints as [0, 1, 2]
RangeCountsFromZero ==
    /\ \A j \in Idx :
          (trace[j].ev = "range" /\ trace[j].n >= 0) =>
            /\ trace[j].err = NoErr
            /\ trace[j].val.t = "arr"
            /\ Len(trace[j].val.a) = trace[j].n
            /\ \A i \in 1..trace[j].n : trace[j].val.a[i].t = "int"
            /\ trace[j].n > 0 => trace[j].val.a[1].i = 0
            /\ \A i \in 1..(trace[j].n - 1) :
                  trace[j].val.a[i + 1].i = trace[j].val.a[i].i + 1
    /\ (trace # << >> /\ trace[1].prog = "range_zero") =>
          /\ lastErr = NoErr
          /\ Has(vars, <<"r">>) /\ vars[<<"r">>] = ArrV(<< >>)
          /\ Has(vars, <<"y">>) /\ vars[<<"y">>] = IntV(0)
          /\ Has(vars, <<"c">>) /\ vars[<<"c">>] = ArrV(<<IntV(0), IntV(1), IntV(2)>>)
          /\ console = <<"[", "0", ",", " ", "1", ",", " ", "2", "]", NL>>
    /\ (trace # << >> /\ trace[1].prog = "range" /\ Has(trace[1].vars, <<"x">>)
          /\ trace[1].vars[<<"x">>] = IntV(2)) =>
          /\ lastErr = NoErr
          /\ Has(vars, <<"y">>) /\ vars[<<"y">>] = IntV(2)
          /\ console = <<"0", NL, "1", NL>>

\* range has been called with 0 and with a value greater than 1
RangeOfZeroAndMoreSeen ==
    /\ \E j \in Idx : trace[j].ev = "range" /\ trace[j].n = 0
    /\ \E j \in Idx : trace[j].ev = "range" /\ trace[j].n > 1

\* C16: append(arr, v) yields arr followed by v, and every variable is bound
\* after the call to what it was bound to before it, the one passed as arr
\* and any other that holds the same array included
AppendLeavesArrayAlone ==
    /\ \A j \in Idx :
          trace[j].ev = "append" =>
            /\ trace[j].result.t = "arr"
            /\ Len(trace[j].result.a) = Len(trace[j].arr.a) + 1
            /\ \A i \in 1..Len(trace[j].arr.a) : trace[j].result.a[i] = trace[j].arr.a[i]
            /\ trace[j].result.a[Len(trace[j].arr.a) + 1] = trace[j].val
            /\ trace[j].varsAfter = trace[j].varsBefore
    \* a = [1, 2] ; b = a ; c = append(a, 3) ; y = len(a)
    /\ (trace # << >> /\ trace[1].prog = "append_copy"
          /\ \E j \in Idx : trace[j].ev = "top_done" /\ trace[j].idx = 4
                             /\ trace[j].err = NoErr) =>
          /\ Has(vars, <<"a">>) /\ vars[<<"a">>] = ArrV(<<IntV(1), IntV(2)>>)
          /\ Has(vars, <<"b">>) /\ vars[<<"b">>] = ArrV(<<IntV(1), IntV(2)>>)
          /\ Has(vars, <<"c">>) /\ vars[<<"c">>] = ArrV(<<IntV(1), IntV(2), IntV(3)>>)
          /\ Has(vars, <<"y">>) /\ vars[<<"y">>] = IntV(2)
    /\ (trace # << >> /\ trace[1].prog = "append_doc") =>
          /\ lastErr = NoErr
          /\ console = <<"[", "f", "i", "r", "s", "t", ",", " ",
                         "s", "e", "c", "o", "n", "d", "]", NL>>

\* append has been applied to an array that two variables hold, and its second
\* argument was a call of a user function
AppendToSharedArraySeen ==
    /\ trace # << >> /\ trace[1].prog = "append_copy"
    /\ \E j \in Idx :
          /\ trace[j].ev = "append"
          /\ Has(trace[j].varsBefore, <<"a">>) /\ trace[j].varsBefore[<<"a">>] = trace[j].arr
          /\ Has(trace[j].varsBefore, <<"b">>) /\ trace[j].varsBefore[<<"b">>] = trace[j].arr
    /\ \E j \in Idx : trace[j].ev = "append" /\ j > 1 /\ trace[j - 1].ev = "call_ret"

HeredocNotImplemented ==
    /\ \A j \in Idx :
          (trace[j].ev = "io_ret" /\ trace[j].redir = "<<") =>
            /\ trace[j].err = Errorf("heredoc not yet implemented")
            /\ trace[j].stdoutAfter = trace[j].stdoutBefore
            /\ trace[j].stdinAfter = trace[j].stdinBefore
            /\ \A k \in (trace[j].from + 1)..(j - 1) :
                  \/ trace[k].ev = "ident"
                  \/ /\ trace[k].ev = "expr"
                     /\ trace[k].type \in {"Identifier", "PathExpression",
                                            "StringLiteral", "VariableReference"}
            /\ Cardinality({k \in (trace[j].from + 1)..(j - 1) : trace[k].ev = "expr"}) = 1
            /\ lastErr = trace[j].err
    /\ (trace # << >> /\ trace[1].prog \in {"heredoc", "heredoc_pipe", "heredoc_redir"}) =>
          /\ lastErr = Errorf("heredoc not yet implemented")
          /\ trace[Len(trace)].ev = "top_done" /\ trace[Len(trace)].idx = 1
          /\ cwd = trace[1].cwd
          /\ console = << >>
          /\ vars = trace[1].vars
          /\ \A k \in Idx : trace[k].ev \notin {"exec", "write", "open", "pipe_left"}

\* a heredoc whose command is a pipe of two commands that would create a file
\* and change directory has been evaluated where that directory differs from cwd
HeredocOverPipeSeen ==
    /\ trace # << >> /\ trace[1].prog = "heredoc_pipe"
    /\ \E j \in Idx : trace[j].ev = "io_ret" /\ trace[j].redir = "<<"
    /\ cwd # <<"/">>

\* a path that starts with / and has no empty, "." or ".." component
IsCleanAbs(p) ==
    /\ IsAbs(p)
    /\ p # <<"/">> =>
          \A c \in {SplitSlash(Tail(p), << >>)[i] : i \in 1..Len(SplitSlash(Tail(p), << >>))} :
              c \notin {<< >>, <<".">>, <<".", ".">>}

\* resolvePath in an evaluator that has cwd and home and nothing else
ResolveAlone(path) ==
    resolvePath([cwd |-> cwd, home |-> home, env |-> EmptyMap], path)

\* what C19 says of a path that does not name the home directory, and of
\* every path: the result is absolute and clean and depends on cwd and home only
ResolveCommon(path, result) ==
    /\ path = << >> => result = cwd
    /\ (path # << >> /\ Head(path) # "~" /\ IsAbs(path)) => result = Clean(path)
    /\ (path # << >> /\ ~IsAbs(path) /\ path # <<"~">>
          /\ ~(Len(path) >= 2 /\ SubSeq(path, 1, 2) = <<"~", "/">>))
         => result = Clean(PathJoin(cwd, path))
    /\ IsCleanAbs(result)
    /\ result = ResolveAlone(path)
    \* "." and ".." collapse
    /\ (cwd = StartDir /\ path = <<".", ".">>) => result = <<"/">>
    /\ (cwd = StartDir /\ path = <<".", "/", "a">>) => result = <<"/", "w", "/", "a">>
    /\ (cwd = StartDir /\ path = <<"a", "/", ".">>) => result = <<"/", "w", "/", "a">>
    /\ path = <<"/", ".", ".">> => result = <<"/">>
    /\ path = <<"/", "a", "/">> => result = <<"/", "a">>
    /\ (cwd = StartDir /\ path = <<"~", "a">>) => result = <<"/", "w", "/", "~", "a">>

\* C19 as stated: the empty path resolves to cwd, ~ to the home directory,
\* ~/rest to the home directory joined with rest, an absolute path to its
\* cleaned form, any other path to the cleaned join of cwd and the path, and
\* nothing but cwd and home bears on the result
ResolvePathRules ==
    \A i \in Idx :
        trace[i].ev = "resolve" =>
            /\ ResolveCommon(trace[i].path, trace[i].result)
            /\ trace[i].path = <<"~">> => trace[i].result = home
            /\ (Len(trace[i].path) >= 2 /\ SubSeq(trace[i].path, 1, 2) = <<"~", "/">>)
                 => trace[i].result
                      = PathJoin(home, SubSeq(trace[i].path, 3, Len(trace[i].path)))

\* C19 as amended: as stated when the home directory is known; when it is
\* not, ~ resolves to cwd and ~/rest, like any relative path, to the cleaned
\* join of cwd and the whole path
ResolvePathRulesWithHome ==
    \A i \in Idx :
        trace[i].ev = "resolve" =>
            /\ ResolveCommon(trace[i].path, trace[i].result)
            /\ trace[i].path = <<"~">> =>
                  trace[i].result = IF home # << >> THEN home ELSE cwd
            /\ (Len(trace[i].path) >= 2 /\ SubSeq(trace[i].path, 1, 2) = <<"~", "/">>)
                 => trace[i].result
                      = IF home # << >>
                        THEN PathJoin(home, SubSeq(trace[i].path, 3, Len(trace[i].path)))
                        ELSE Clean(PathJoin(cwd, trace[i].path))
            /\ (home = HomeDir /\ trace[i].path = <<"~", "/", "a">>)
                 => trace[i].result = <<"/", "h", "/", "a">>
            /\ (home = HomeDir /\ trace[i].path = <<"~", "/", ".">>)
                 => trace[i].result = <<"/", "h">>

\* ~/a has been resolved with a home directory known, in a directory other
\* than it, with HOME set to something else in the overlay
HomeRelativePathSeen ==
    /\ trace # << >> /\ trace[1].ev = "resolve" /\ trace[1].path = <<"~", "/", "a">>
    /\ home = HomeDir /\ cwd # HomeDir
    /\ Has(env, <<"H", "O", "M", "E">>)

RECURSIVE PipesNestLeft(_)
\* no pipe below node n has a pipe or a redirection as its right operand
PipesNestLeft(n) ==
    CASE n.type = "PipeExpression" ->
            /\ n.Right.type \notin {"PipeExpression", "RedirectionExpression"}
            /\ PipesNestLeft(n.Left)
      [] n.type = "RedirectionExpression" -> PipesNestLeft(n.Command)
      [] OTHER -> TRUE

IsOp(tok) == tok.Type \in {"PIPE", "GREATER"}

\* a command line in words: commands with their arguments, or single words,
\* joined by | and > file
WellFormedLine(toks) ==
    /\ toks # << >>
    /\ ~IsOp(toks[1]) /\ ~IsOp(toks[Len(toks)])
    /\ \A i \in 1..(Len(toks) - 1) :
          \* no operator follows an operator
          /\ IsOp(toks[i]) => ~IsOp(toks[i + 1])
          \* a word follows a word only as the argument of a command
          /\ (~IsOp(toks[i]) /\ ~IsOp(toks[i + 1])) =>
                \E k \in 1..i :
                    /\ toks[k].Literal \in DOMAIN TokenMap
                    /\ k = 1 \/ toks[k - 1].Type = "PIPE"
                    /\ \A m \in k..i : ~IsOp(toks[m])

\* the command or word that the words of seg stand for
UnitOf(seg) ==
    IF seg[1].Literal \in DOMAIN TokenMap
    THEN [type |-> "Command", Type |-> tokenTypeToCommandType(TokenMap[seg[1].Literal]),
          Name |-> seg[1].Literal,
          Arguments |-> [i \in 1..(Len(seg) - 1) |-> Identifier(seg[i + 1].Literal)]]
    ELSE Identifier(seg[1].Literal)

RECURSIVE LeftNested(_)
\* the tree in which every operator of the line takes all that stands to its
\* left as its left operand and the one unit after it as its right operand
LeftNested(toks) ==
    LET ops == {i \in 1..Len(toks) : IsOp(toks[i])} IN
    IF ops = {} THEN UnitOf(toks)
    ELSE LET k == CHOOSE i \in ops : \A j \in ops : j <= i IN
         IF toks[k].Type = "PIPE"
         THEN PipeExpression(LeftNested(SubSeq(toks, 1, k - 1)),
                             UnitOf(SubSeq(toks, k + 1, Len(toks))))
         ELSE RedirectionExpression(">", LeftNested(SubSeq(toks, 1, k - 1)),
                                    Identifier(toks[k + 1].Literal))

\* C20: the pipe operator is left-associative and binds tighter than
\* redirection: in every tree the parser builds, the right operand of a pipe
\* is neither a pipe nor a redirection, and a well-formed line is parsed
\* without an error into the one tree in which every operator takes all to
\* its left as its left operand, so that a | b | c is (a | b) | c and
\* a | b > file is (a | b) > file
PipeBindsLeftAndTighter ==
    \A j \in Idx :
        trace[j].ev = "parse" =>
            /\ \A s \in 1..Len(trace[j].program) :
                  PipesNestLeft(trace[j].program[s].Expression)
            /\ WellFormedLine(trace[j].tokens) =>
                  /\ trace[j].errors = << >>
                  /\ Len(trace[j].program) = 1
                  /\ trace[j].program[1] = ExpressionStatement(LeftNested(trace[j].tokens))

\* a line with a pipe and, after its right operand, a redirection has been
\* parsed into a redirection of the whole pipe
PipeThenRedirectionParsed ==
    \E j \in Idx :
        /\ trace[j].ev = "parse"
        /\ WellFormedLine(trace[j].tokens)
        /\ \E a, b \in 1..Len(trace[j].tokens) :
              /\ a < b
              /\ trace[j].tokens[a].Type = "PIPE" /\ trace[j].tokens[b].Type = "GREATER"
        /\ trace[j].program[1].Expression.type = "RedirectionExpression"
        /\ trace[j].program[1].Expression.Command.type = "PipeExpression"

\* the loop iterations that have begun and not ended when event j happens
OpenIterations(j) ==
    {i \in 1..(j - 1) :
        /\ trace[i].ev = "for_iter"
        /\ ~\E m \in (i + 1)..j : /\ trace[m].ev = "for_body"
                                  /\ trace[m].act = trace[i].act
                                  /\ trace[m].idx = trace[i].idx}

\* C26 as stated: a break or continue that leaves the body of a user function
\* is the error of Eval, and nothing is executed after the call, also when
\* the call is made inside a for loop of the caller
SignalFromFunctionIsError ==
    \A j \in Idx :
        (trace[j].ev = "call_ret" /\ trace[j].err.k \in {"break", "continue"}) =>
            /\ lastErr = trace[j].err
            /\ \A m \in (j + 1)..Len(trace) :
                  trace[m].ev \notin {"top", "stmt", "expr", "exec", "for_iter"}

\* C26 as amended: a break or continue that leaves the body of a user
\* function is the error of the call, unchanged.  When no for loop of a caller
\* is running, it ends Eval as its error; when one is, the innermost running
\* loop takes it as its own break or continue: the rest of the iteration is
\* not executed, a break ends that loop without an error and a continue goes
\* on to the next item.  So
\*   fn skip() { continue } ; for i in range(2) { y = i ; skip() ; y = 9 } ; x = 1
\* ends without an error with y = 1 and x = 1
SignalFromFunctionReachesLoop ==
    /\ (trace # << >> /\ trace[1].ev = "eval" /\ trace[1].prog = "fn_continue") =>
          /\ lastErr = NoErr
          /\ Has(vars, <<"y">>) /\ vars[<<"y">>] = IntV(1)
          /\ Has(vars, <<"x">>) /\ vars[<<"x">>] = IntV(1)
    /\ \A j \in Idx :
        (trace[j].ev = "call_ret" /\ trace[j].err.k \in {"break", "continue"}) =>
            /\ trace[j].val = NilV
            /\ IF OpenIterations(j) = {}
               THEN /\ lastErr = trace[j].err
                    /\ \A m \in (j + 1)..Len(trace) :
                          trace[m].ev \notin {"top", "stmt", "expr", "exec", "for_iter"}
               ELSE LET i == CHOOSE x \in OpenIterations(j) :
                                 \A y \in OpenIterations(j) : y <= x
                        b == Partner(i, "for_body", "act")
                    IN  /\ b > j
                        /\ trace[b].idx = trace[i].idx
                        /\ trace[b].err = trace[j].err
                        /\ \A m \in (j + 1)..(b - 1) :
                              trace[m].ev \notin {"stmt", "expr", "exec", "for_iter"}
                        /\ b < Len(trace) /\ trace[b + 1].act = trace[i].act
                        /\ IF trace[j].err.k = "break" \/ trace[b].idx = trace[b].n
                           THEN trace[b + 1].ev = "for_done" /\ trace[b + 1].err = NoErr
                           ELSE /\ trace[b + 1].ev = "for_iter"
                                /\ trace[b + 1].idx = trace[b].idx + 1

\* a break has left a function called in the first of three iterations of a
\* loop, and the statement after the loop has been executed
BreakFromCallEndsCallersLoop ==
    \E j \in Idx :
        /\ trace[j].ev = "call_ret" /\ trace[j].err.k = "break"
        /\ \E i \in OpenIterations(j) : trace[i].idx = 1
        /\ \E b \in (j + 1)..Len(trace) :
              /\ trace[b].ev = "for_body" /\ trace[b].n = 3 /\ trace[b].idx = 1
              /\ \E m \in (b + 1)..Len(trace) : trace[m].ev = "top"

\* C29: a for loop evaluates its iterable once, before the first iteration;
\* iteration k gives the loop variable the k-th item of that value, no item
\* is taken twice and none out of order, and what the body assigns to the
\* iterated variable or to the loop variable changes neither the number of
\* iterations nor the items: the loop over a = [1, 2, 3] whose body sets
\* a = [9] and i = 7 prints 1 7 2 7 3 7, and the loop over a = [1] whose body
\* appends to a runs once
ForIteratesOverFirstValue ==
    /\ \A s \in Idx :
          trace[s].ev = "for_start" =>
            \A r \in Idx : (trace[r].ev = "for_start" /\ trace[r].act = trace[s].act)
                               => r = s
    /\ \A i \in Idx :
          trace[i].ev = "for_iter" =>
            /\ \E s \in 1..(i - 1) :
                  /\ trace[s].ev = "for_start" /\ trace[s].act = trace[i].act
                  /\ trace[i].idx \in 1..Len(trace[s].items)
                  /\ trace[i].item = trace[s].items[trace[i].idx]
            /\ \A m \in Idx : (trace[m].ev = "for_iter" /\ trace[m].act = trace[i].act
                                 /\ trace[m].idx = trace[i].idx) => m = i
            /\ trace[i].idx > 1 =>
                  \E m \in 1..(i - 1) : /\ trace[m].ev = "for_iter"
                                        /\ trace[m].act = trace[i].act
                                        /\ trace[m].idx = trace[i].idx - 1
    /\ (trace # << >> /\ trace[1].ev = "eval" /\ trace[1].prog = "for_reassign") =>
          /\ lastErr = NoErr
          /\ console = <<"1", NL, "7", NL, "2", NL, "7", NL, "3", NL, "7", NL,
                         "[", "9", "]", NL>>
    /\ (trace # << >> /\ trace[1].ev = "eval" /\ trace[1].prog = "for_grow") =>
          /\ lastErr = NoErr
          /\ Has(vars, <<"y">>) /\ vars[<<"y">>] = IntV(2)
          /\ Cardinality({i \in Idx : trace[i].ev = "for_iter"}) = 1

\* the third iteration of a loop over [1, 2, 3] has begun after the body had
\* bound the iterated variable to another array
IterationAfterReassignmentSeen ==
    \E s \in Idx :
        /\ trace[s].ev = "for_start" /\ Len(trace[s].items) = 3
        /\ \E i \in (s + 1)..Len(trace) :
              /\ trace[i].ev = "for_iter" /\ trace[i].act = trace[s].act
              /\ trace[i].idx = 3
        /\ Has(vars, <<"a">>) /\ vars[<<"a">>] = ArrV(<<IntV(9)>>)

\* C27 as stated: l + r is the concatenation of the two operands as strings
\* when one of them is a string; otherwise it is the integer sum, or a
\* runtime error when an operand is a boolean, an array, a dict or nil, and
\* never a string
PlusNeverStringWithoutString ==
    \A i \in Idx :
        trace[i].ev = "plus" =>
            LET l == trace[i].left
                r == trace[i].right
            IN  IF l.t = "str" \/ r.t = "str"
                THEN /\ trace[i].err = NoErr
                     /\ trace[i].val = StrV(valueToString(l) \o valueToString(r))
                ELSE IF l.t = "int" /\ r.t = "int"
                THEN trace[i].err = NoErr /\ trace[i].val = IntV(l.i + r.i)
                ELSE trace[i].err # NoErr

\* C27: l + r is the concatenation of the two operands as strings when one
\* of them is a string; otherwise it is the integer sum when both are
\* integers, and when an operand is a boolean, an array, a dict or nil it is
\* again the concatenation of the two operands as strings: + itself never
\* gives an error
PlusConcatenatesUnlessIntegers ==
    /\ \A i \in Idx :
          trace[i].ev = "plus" =>
            LET l == trace[i].left
                r == trace[i].right
            IN  /\ trace[i].err = NoErr
                /\ IF l.t = "int" /\ r.t = "int"
                   THEN trace[i].val = IntV(l.i + r.i)
                   ELSE trace[i].val = StrV(valueToString(l) \o valueToString(r))
    /\ (trace # << >> /\ trace[1].ev = "eval" /\ trace[1].prog = "plus") =>
          /\ lastErr = NoErr
          /\ \E i \in Idx : trace[i].ev = "plus"
          /\ Has(vars, <<"x">>)
          /\ console = valueToString(vars[<<"x">>]) \o <<NL>>

\* true + 2 has given the string true2
BooleanPlusIntegerSeen ==
    \E i \in Idx :
        /\ trace[i].ev = "plus"
        /\ trace[i].left = BoolV(TRUE) /\ trace[i].right = IntV(2)
        /\ trace[i].val = StrV(<<"t", "r", "u", "e", "2">>)
        /\ Has(vars, <<"x">>) /\ vars[<<"x">>] = trace[i].val

\* C28: a call of a built-in function ends with a value or a runtime error
\* whatever its arguments are, never with a panic: range(n) with n < 0 and
\* slice(arr, start, end) with start or end outside 0..len(arr) give a value
\* or an error
BuiltinsNeverPanic ==
    /\ lastErr.k # "panic"
    /\ \A i \in Idx :
          trace[i].ev \in {"range", "slice"} =>
            /\ trace[i].err.k \in {"nil", "error"}
            /\ trace[i].err = NoErr => trace[i].val.t = "arr"

\* the bindings as a script can tell them apart: a dict is its entries
Bindings(vs) ==
    [k \in DOMAIN vs |->
        IF vs[k].t = "dict"
        THEN [t |-> "dict",
              pairs |-> {vs[k].pairs[i] : i \in 1..Len(vs[k].pairs)}]
        ELSE vs[k]]

\* C30: two evaluations of a program from the same evaluator state and file
\* system print the same text, leave the same bindings and return the same
\* error, also when the program has a dict literal with a repeated key or
\* prints or concatenates a dict with more than one entry
EvalIsDeterministic ==
    (trace # << >> /\ trace[Len(trace)].ev = "again") =>
        /\ trace[Len(trace)].console = console
        /\ Bindings(trace[Len(trace)].vars) = Bindings(vars)
        /\ trace[Len(trace)].err = lastErr

\* the end of the string that opens at character q of input: the place of
\* the next quote or zero byte, or one past the end of the input
StringEnd(input, q) ==
    LET c == {j \in (q + 1)..Len(input) : input[j] \in {input[q], NUL}}
    IN  IF c = {} THEN Len(input) + 1 ELSE CHOOSE j \in c : \A m \in c : j <= m

\* C25: a NextToken call returns one token and never moves the cursor back or
\* past the end; a call that returns a token other than EOF moves it forward
\* by at least one character; after as many calls as the input has
\* characters, and one more, EOF has been returned, and a call after EOF
\* returns EOF again and leaves the cursor where it is; a call that starts on
\* the quote of a string without closing quote returns ILLEGAL with the
\* characters after the quote, and with a closing quote STRING with the
\* characters between the two
LexerAdvancesToEOF ==
    (trace # << >> /\ trace[1].ev = "lexer") =>
        \A i \in 2..Len(trace) :
            LET before == trace[i - 1].l
                after  == trace[i].l
                tok    == trace[i].tok
                input  == before.input
                q      == before.pos + 1
            IN  /\ trace[i].ev = "token"
                /\ after.input = input
                /\ before.pos <= after.pos /\ after.pos <= Len(input)
                /\ tok.Type # "EOF" => before.pos < after.pos
                /\ (i > 2 /\ trace[i - 1].tok.Type = "EOF") =>
                        tok.Type = "EOF" /\ after.pos = before.pos
                /\ i - 1 > Len(input) => tok.Type = "EOF"
                /\ (q <= Len(input) /\ input[q] = "\"") =>
                        /\ tok.Literal = SubSeq(input, q + 1, StringEnd(input, q) - 1)
                        /\ IF StringEnd(input, q) <= Len(input)
                              /\ input[StringEnd(input, q)] = "\""
                           THEN tok.Type = "STRING" /\ after.pos = StringEnd(input, q)
                           ELSE tok.Type = "ILLEGAL"
                                /\ after.pos = StringEnd(input, q) - 1

\* a string without closing quote has given ILLEGAL with the two characters
\* after the quote, and the two calls after it EOF
UnterminatedStringThenEOF ==
    /\ Len(trace) = 4 /\ trace[1].ev = "lexer"
    /\ trace[2].tok = Token("ILLEGAL", <<"l", "s">>)
    /\ trace[3].tok.Type = "EOF" /\ trace[4].tok.Type = "EOF"

\* C21: the target of every redirection the parser makes is an identifier, a
\* path, a string or a variable reference, never a command, or there is no
\* target and a parse error is recorded; ls > ls has the identifier ls as
\* target, and in ls > w a word w that begins with an operator or a number,
\* or no word at all, records an error
RECURSIVE TargetsRestricted(_)
TargetsRestricted(node) ==
    CASE node.type = "RedirectionExpression" ->
            /\ node.Target.type \in {"Identifier", "PathExpression", "StringLiteral",
                                     "VariableReference", "nil"}
            /\ TargetsRestricted(node.Command)
      [] node.type = "PipeExpression" ->
            TargetsRestricted(node.Left) /\ TargetsRestricted(node.Right)
      [] node.type = "ExpressionStatement" -> TargetsRestricted(node.Expression)
      [] OTHER -> TRUE

RECURSIVE HasNilTarget(_)
HasNilTarget(node) ==
    CASE node.type = "RedirectionExpression" ->
            node.Target = NilNode \/ HasNilTarget(node.Command)
      [] node.type = "PipeExpression" -> HasNilTarget(node.Left) \/ HasNilTarget(node.Right)
      [] node.type = "ExpressionStatement" -> HasNilTarget(node.Expression)
      [] OTHER -> FALSE

TargetError(tt) == <<"unexpected token in redirection target", tt>>

RedirectionTargetsRestricted ==
    (trace # << >> /\ trace[1].ev = "parse") =>
        LET program == trace[1].program
            errors  == trace[1].errors
            words   == trace[1].words
            ls      == [type |-> "Command", Type |-> "ls", Name |-> <<"l", "s">>,
                        Arguments |-> << >>]
        IN  /\ \A i \in 1..Len(program) :
                  /\ TargetsRestricted(program[i])
                  /\ HasNilTarget(program[i]) => errors # << >>
            /\ (Len(words) \in {2, 3} /\ words[1] = <<"l", "s">> /\ words[2] = <<">">>) =>
                  /\ Len(program) >= 1
                  /\ program[1].Expression.type = "RedirectionExpression"
                  /\ program[1].Expression.Command = ls
                  /\ IF Len(words) = 2
                     THEN /\ program[1].Expression.Target = NilNode
                          /\ errors = <<TargetError("EOF")>>
                     ELSE LET tt == Tokens(NewLexer(words[3]))[1].Type IN
                          CASE words[3] = <<"l", "s">> ->
                                  program[1].Expression.Target = Identifier(<<"l", "s">>)
                            [] tt \in {"GREATER", "PIPE", "INTEGER"} ->
                                  /\ program[1].Expression.Target = NilNode
                                  /\ errors # << >> /\ errors[1] = TargetError(tt)
                            [] OTHER -> program[1].Expression.Target # NilNode
                                        \/ words[3] = <<"$">>

\* ls > ls has been parsed: one statement, the redirection of the command ls
\* into the identifier ls, and no error
KeywordAsTargetParsed ==
    /\ trace # << >> /\ trace[1].ev = "parse"
    /\ trace[1].words = <<(<<"l", "s">>), (<<">">>), (<<"l", "s">>)>>
    /\ Len(trace[1].program) = 1
    /\ trace[1].program[1].Expression.Target = Identifier(<<"l", "s">>)
    /\ trace[1].errors = << >>

\* the words that name files: names, names with extensions, paths
FileWords ==
    {<<"l", "s">>, <<"f">>, <<"a", ".", "b">>, <<"a", "/", "b">>,
     <<"a", ".", "b", ".", "c">>, <<".", "/", "a">>, <<"l", "s", "/", "f">>}

\* C22: a command keyword followed by k words that name files parses to one
\* command with k arguments, the i-th of them an identifier or a path with
\* the text of the i-th word; two words are never merged into one argument
CommandArgumentsAreWords ==
    (/\ trace # << >> /\ trace[1].ev = "parse"
     /\ Len(trace[1].words) >= 1 /\ trace[1].words[1] = <<"l", "s">>
     /\ \A i \in 2..Len(trace[1].words) : trace[1].words[i] \in FileWords) =>
        LET program == trace[1].program
            words   == trace[1].words
        IN  /\ Len(program) = 1
            /\ trace[1].errors = << >>
            /\ program[1].Expression.type = "Command"
            /\ program[1].Expression.Type = "ls"
            /\ Len(program[1].Expression.Arguments) = Len(words) - 1
            /\ \A i \in 1..Len(program[1].Expression.Arguments) :
                  /\ program[1].Expression.Arguments[i].type
                        \in {"Identifier", "PathExpression"}
                  /\ i + 1 <= Len(words)
                        => program[1].Expression.Arguments[i].Value = words[i + 1]

\* C23: the text of a path expression the parser made, parsed again on its
\* own, gives one path expression with the same text and no error, unless
\* the text begins with a command keyword: then it gives that command
PathTextParsesToItselfUnlessKeyword ==
    \A i \in Idx :
        trace[i].ev = "reparse" =>
            /\ Len(trace[i].program) = 1
            /\ IF Tokens(NewLexer(trace[i].Value))[1].Literal \in DOMAIN TokenMap
               THEN /\ trace[i].program[1].Expression.type = "Command"
                    /\ trace[i].program[1].Expression.Name
                         = Tokens(NewLexer(trace[i].Value))[1].Literal
               ELSE /\ trace[i].program[1].Expression = PathExpression(trace[i].Value)
                    /\ trace[i].errors = << >>

\* ls a/b f has given the one argument a/bf, and a/bf parsed again is the
\* path a/bf
MergedPathParsedAgain ==
    /\ Len(trace) = 2 /\ trace[1].ev = "parse" /\ trace[2].ev = "reparse"
    /\ trace[1].words = <<(<<"l", "s">>), (<<"a", "/", "b">>), (<<"f">>)>>
    /\ trace[2].Value = <<"a", "/", "b", "f">>
    /\ trace[2].program = <<ExpressionStatement(PathExpression(<<"a", "/", "b", "f">>))>>

IsPrefix(a, b) == Len(a) <= Len(b) /\ SubSeq(b, 1, Len(a)) = a

\* C24: ParseProgram ends with every token consumed: each turn of its loop
\* begins further on in the tokens and adds one statement, and the last one
\* finds the end of the input; the errors recorded at one turn are still
\* there, in the same places, at the next; a token no expression can begin
\* with records an error and the tokens after it are parsed; the empty input
\* gives no statement and no error
ParseProgramConsumesAll ==
    (trace # << >> /\ trace[1].ev = "parse") =>
        LET s    == trace[1].steps
            toks == trace[1].tokens
        IN  /\ Len(s) >= 1
            /\ s[1].pos = 1 /\ s[1].errors = << >> /\ s[1].n = 0
            /\ \A k \in 1..(Len(s) - 1) :
                  /\ s[k].pos <= Len(toks)
                  /\ s[k].pos < s[k + 1].pos
                  /\ s[k + 1].n = s[k].n + 1
                  /\ IsPrefix(s[k].errors, s[k + 1].errors)
                  /\ toks[s[k].pos].Type \in {"PIPE", "GREATER", "ILLEGAL"}
                        => Len(s[k + 1].errors) > Len(s[k].errors)
            /\ s[Len(s)].pos > Len(toks)
            /\ trace[1].errors = s[Len(s)].errors
            /\ Len(trace[1].program) = s[Len(s)].n
            /\ toks = << >> => trace[1].program = << >> /\ trace[1].errors = << >>

\* | ls has been parsed: an error for |, and then the command ls
ParsedOnAfterError ==
    /\ trace # << >> /\ trace[1].ev = "parse"
    /\ trace[1].words = <<(<<"|">>), (<<"l", "s">>)>>
    /\ Len(trace[1].errors) = 1
    /\ Len(trace[1].program) = 2
    /\ trace[1].program[2].Expression.type = "Command"

\* C23 as stated: the text of a path expression the parser made, parsed again
\* on its own, gives one path expression with the same text
PathTextParsesToItself ==
    \A i \in Idx :
        trace[i].ev = "reparse" =>
            /\ Len(trace[i].program) = 1
            /\ trace[i].program[1].Expression = PathExpression(trace[i].Value)

====
